---- MODULE Spec2Model ----
(***************************************************************************)
(* Image protocol handlers of surf-n-term (src/src/image.rs).              *)
(*                                                                         *)
(* Numbers that do not fit a 32 bit signed integer (the u64 fingerprint,   *)
(* the Kitty identifiers) are kept as big-endian sequences of NLimbs       *)
(* 16 bit limbs ("wide" numbers), with exact arithmetic on them.           *)
(***************************************************************************)
EXTENDS Integers, Sequences, FiniteSets, TLC

VARIABLES
    imgs,       \* KittyImageHandler.imgs : image id -> size in bytes
    out,        \* the byte sink handed to draw/erase, as a token sequence
    log,        \* the calls made on the Kitty handler, in order
    hkind,      \* which handler caches: "sixel" or "iterm"
    cache,      \* Sixel/iTerm handler: imgs (LRU cache), LRU first
    size,       \* Sixel/iTerm handler: size accumulator
    cout,       \* sink of the Sixel/iTerm handler: the byte strings written
    clog,       \* the calls made on the Sixel/iTerm handler, in order
    idIn,       \* identifier functions: the argument (image hash, position)
    idOut,      \* identifier functions: the results, or <<>> before the call
    octree,     \* an OcTree
    oclog,      \* the calls made on the OcTree, in order
    sxIn,       \* Sixel encoding: the image handed to draw and its background
    sxOut,      \* Sixel encoding: what draw wrote, or <<>> before the call
    fnIn,       \* color functions: the arguments of the call
    fnOut       \* color functions: the results, or <<>> before the call

vars == <<imgs, out, log, hkind, cache, size, cout, clog, idIn, idOut,
         octree, oclog, sxIn, sxOut, fnIn, fnOut>>

kittyVars == <<imgs, out, log>>
cacheVars == <<hkind, cache, size, cout, clog>>
idVars == <<idIn, idOut>>
ocVars == <<octree, oclog>>
sixelVars == <<sxIn, sxOut>>
fnVars == <<fnIn, fnOut>>

-----------------------------------------------------------------------------
(* Wide unsigned numbers: NLimbs limbs of 16 bits, most significant first.  *)

Base == 2^16
NLimbs == 6

WZero == [i \in 1..NLimbs |-> 0]

\* the wide number of a small natural (n < 2^31)
W(n) == [i \in 1..NLimbs |->
            IF i = NLimbs THEN n % Base
            ELSE IF i = NLimbs - 1 THEN n \div Base
            ELSE 0]

\* the wide number with the given four low limbs (a u64)
U64(w3, w2, w1, w0) ==
    [i \in 1..NLimbs |->
        IF i = NLimbs THEN w0
        ELSE IF i = NLimbs - 1 THEN w1
        ELSE IF i = NLimbs - 2 THEN w2
        ELSE IF i = NLimbs - 3 THEN w3
        ELSE 0]

\* the limbs 1..i of a + b + c, c the carry into limb i
RECURSIVE WAddFrom(_, _, _, _)
WAddFrom(a, b, i, c) ==
    IF i = 0 THEN <<>>
    ELSE LET s == a[i] + b[i] + c
         IN WAddFrom(a, b, i - 1, s \div Base) \o <<s % Base>>

\* a + b, modulo Base^NLimbs
WAdd(a, b) == WAddFrom(a, b, NLimbs, 0)

\* the limbs 1..i of a - b - c, c the borrow out of limb i
RECURSIVE WSubFrom(_, _, _, _)
WSubFrom(a, b, i, c) ==
    IF i = 0 THEN <<>>
    ELSE LET d == a[i] - b[i] - c
         IN WSubFrom(a, b, i - 1, IF d < 0 THEN 1 ELSE 0) \o <<d % Base>>

\* a - b for a >= b
WSub(a, b) == WSubFrom(a, b, NLimbs, 0)

RECURSIVE WLessFrom(_, _, _)
WLessFrom(a, b, i) ==
    IF i > NLimbs THEN FALSE
    ELSE IF a[i] # b[i] THEN a[i] < b[i]
    ELSE WLessFrom(a, b, i + 1)

WLess(a, b) == WLessFrom(a, b, 1)
WLeq(a, b) == ~WLess(b, a)

\* a * 2^16 and a * 2^32 (the top limbs of a are zero)
WShlLimb(a) == SubSeq(a, 2, NLimbs) \o <<0>>
\* a div 2^32
WShr32(a) == <<0, 0>> \o SubSeq(a, 1, NLimbs - 2)

\* bit k (0 = least significant) of a
WBit(a, k) == (a[NLimbs - (k \div 16)] \div (2^(k % 16))) % 2

\* a % m for a u64 a and 0 < m <= 2^32: binary long division, bit 63 first
RECURSIVE WModFrom(_, _, _, _)
WModFrom(a, m, k, r) ==
    IF k < 0 THEN r
    ELSE LET r2 == WAdd(WAdd(r, r), W(WBit(a, k)))
         IN IF WLess(r2, m)
            THEN WModFrom(a, m, k - 1, r2)
            ELSE WModFrom(a, m, k - 1, WSub(r2, m))

WMod(a, m) == WModFrom(a, m, 63, WZero)

-----------------------------------------------------------------------------
(* Images, positions and terminal events handed to the handlers.            *)

\* Image: the precomputed hash, the surface's height and width, and zlen,
\* the length of the zlib stream of its RGBA bytes (a function of the pixels)
Image(hash, height, width, zlen) ==
    [hash |-> hash, height |-> height, width |-> width, zlen |-> zlen]

\* hash 5, empty surface: the zlib stream of no bytes is 8 bytes long
ImgA == Image(U64(0, 0, 0, 5), 0, 0, 8)
\* hash 2^32 + 4, equal to 5 modulo 2^32 - 1
ImgB == Image(U64(0, 1, 0, 4), 40, 40, 6144)
\* hash 2^32 - 1
ImgC == Image(U64(0, 0, 65535, 65535), 50, 40, 6145)

Images == {ImgA, ImgB, ImgC}

\* Image::size
ImageSize(img) == img.height * img.width * 4

Position(row, col) == [row |-> row, col |-> col]

Positions == {Position(3, 2), Position(65537, 70000)}

\* Option<T>: None is the empty sequence, Some(x) is <<x>>
None == <<>>
Some(x) == <<x>>

ErasePositions == {None, Some(Position(65537, 70000))}

\* TerminalEvent: the Kitty acknowledgment and events of other kinds
KittyImageEvent(id, error) == [kind |-> "KittyImage", id |-> id, error |-> error]

Events ==
    {KittyImageEvent(W(5), None),
     KittyImageEvent(W(5), Some("bad data")),
     KittyImageEvent(WZero, Some("bad data")),
     [kind |-> "Key"]}

-----------------------------------------------------------------------------
(* Kitty identifiers.                                                       *)

KITTY_MAX_DIM == 65536

\* 4294967295
KITTY_MAX_ID == U64(0, 0, 65535, 65535)

\* hash % KITTY_MAX_ID, computed once for every hash of the model
HashModMaxId == [h \in {img.hash : img \in Images} |-> WMod(h, KITTY_MAX_ID)]

\* kitty_image_id with the modulus 2^32
kitty_image_id_2p32(img) ==
    [i \in 1..NLimbs |-> IF i >= NLimbs - 1 THEN img.hash[i] ELSE 0]

kitty_image_id(img) == HashModMaxId[img.hash]

\* kitty_placement_id without the reduction of the column
kitty_placement_id_nomod(pos) ==
    WAdd(W(pos.row % KITTY_MAX_DIM), WShlLimb(W(pos.col)))

kitty_placement_id(pos) ==
    WAdd(W(pos.row % KITTY_MAX_DIM), WShlLimb(W(pos.col % KITTY_MAX_DIM)))

-----------------------------------------------------------------------------
(* The sink as a sequence of tokens: "\x1b_G" (APC), key=value (KV), ","    *)
(* (COMMA), ";" (SEMI), a slice of an image's payload (DATA) and "\x1b\\"   *)
(* (ST).  A key's value is a word (s) or a number printed in decimal (n).   *)

Tok(t, k, s, n, d) == [t |-> t, k |-> k, s |-> s, n |-> n, d |-> d]

APC == Tok("APC", "", "", <<>>, <<>>)
ST == Tok("ST", "", "", <<>>, <<>>)
COMMA == Tok("COMMA", "", "", <<>>, <<>>)
SEMI == Tok("SEMI", "", "", <<>>, <<>>)
KVs(k, s) == Tok("KV", k, s, <<>>, <<>>)
KVn(k, n) == Tok("KV", k, "", n, <<>>)
\* len bytes at offset off of the payload of the image with this hash
DATA(hash, off, len) == Tok("DATA", "", "", hash, <<off, len>>)

\* Base64Encoder: 4 characters per 3 bytes, the last group padded by finish
Base64Len(n) == 4 * ((n + 2) \div 3)

\* the length of the payload: the base64 text of the zlib stream
PayloadLen(img) == Base64Len(img.zlen)

ChunkSize == 4096

\* payload.chunks(4096).len()
ChunkCount(len) == (len + ChunkSize - 1) \div ChunkSize

\* the index-th chunk (from 0) as <<offset, length>>
Chunk(len, index) ==
    LET off == index * ChunkSize
    IN <<off, IF len - off < ChunkSize THEN len - off ELSE ChunkSize>>

\* More with the comparison off by one
More_offbyone(index, count) == IF index < count THEN 1 ELSE 0

\* whether more chunks follow the index-th of count
More(index, count) == IF index + 1 < count THEN 1 ELSE 0

\* the writes of one iteration of the transfer loop
ChunkFrame(img, img_id, index, count) ==
    LET more == More(index, count)
        chunk == Chunk(PayloadLen(img), index)
        head == IF index = 0
                THEN <<APC, KVs("a", "t"), COMMA, KVn("f", W(32)), COMMA,
                       KVs("o", "z"), COMMA, KVn("i", img_id), COMMA,
                       KVn("v", W(img.height)), COMMA, KVn("s", W(img.width)),
                       COMMA, KVn("m", W(more)), SEMI>>
                ELSE <<APC, KVn("m", W(more)), SEMI>>
    IN head \o <<DATA(img.hash, chunk[1], chunk[2])>> \o <<ST>>

RECURSIVE TransferFrom(_, _, _, _)
TransferFrom(img, img_id, index, count) ==
    IF index >= count THEN <<>>
    ELSE ChunkFrame(img, img_id, index, count)
         \o TransferFrom(img, img_id, index + 1, count)

\* the transfer loop of draw
Transfer(img, img_id) ==
    TransferFrom(img, img_id, 0, ChunkCount(PayloadLen(img)))

\* "\x1b_Ga=p,i={},p={};\x1b\\"
Placement(img_id, placement_id) ==
    <<APC, KVs("a", "p"), COMMA, KVn("i", img_id), COMMA,
      KVn("p", placement_id), SEMI, ST>>

\* Delete with the ';' of the draw frames
Delete_semi(img_id, pos) ==
    IF pos # None
    THEN <<APC, KVs("a", "d"), COMMA, KVs("d", "i"), COMMA, KVn("i", img_id),
           COMMA, KVn("p", kitty_placement_id(pos[1])), SEMI, ST>>
    ELSE <<APC, KVs("a", "d"), COMMA, KVs("d", "i"), COMMA, KVn("i", img_id),
           SEMI, ST>>

\* the frame written by erase
Delete(img_id, pos) ==
    IF pos # None
    THEN <<APC, KVs("a", "d"), COMMA, KVs("d", "i"), COMMA, KVn("i", img_id),
           COMMA, KVn("p", kitty_placement_id(pos[1])), ST>>
    ELSE <<APC, KVs("a", "d"), COMMA, KVs("d", "i"), COMMA, KVn("i", img_id),
           ST>>

-----------------------------------------------------------------------------
(* KittyImageHandler                                                        *)

MaxCalls == 3

KittyNew ==
    /\ imgs = <<>>
    /\ out = <<>>
    /\ log = <<>>

\* imgs.entry(img_id) is vacant
Vacant(img_id) == img_id \notin DOMAIN imgs

KittyImgsAfterDraw(img, img_id) ==
    IF Vacant(img_id) THEN (img_id :> ImageSize(img)) @@ imgs ELSE imgs

\* KittyDrawWrites with the placement requested before the transfer
KittyDrawWrites_placefirst(img, pos) ==
    LET img_id == kitty_image_id(img)
    IN Placement(img_id, kitty_placement_id(pos))
       \o (IF Vacant(img_id) THEN Transfer(img, img_id) ELSE <<>>)

KittyDrawWrites(img, pos) ==
    LET img_id == kitty_image_id(img)
    IN (IF Vacant(img_id) THEN Transfer(img, img_id) ELSE <<>>)
       \o Placement(img_id, kitty_placement_id(pos))

KittyDraw(img, pos) ==
    /\ Len(log) < MaxCalls
    /\ imgs' = KittyImgsAfterDraw(img, kitty_image_id(img))
    /\ out' = out \o KittyDrawWrites(img, pos)
    /\ log' = Append(log, [op |-> "draw", img |-> img, pos |-> pos,
                           from |-> Len(out), to |-> Len(out')])

\* KittyErase that also forgets the transfer
KittyErase_forget(img, pos) ==
    /\ Len(log) < MaxCalls
    /\ out' = out \o Delete(kitty_image_id(img), pos)
    /\ log' = Append(log, [op |-> "erase", img |-> img, pos |-> pos,
                           from |-> Len(out), to |-> Len(out')])
    /\ imgs' = [k \in DOMAIN imgs \ {kitty_image_id(img)} |-> imgs[k]]

KittyErase(img, pos) ==
    /\ Len(log) < MaxCalls
    /\ out' = out \o Delete(kitty_image_id(img), pos)
    /\ log' = Append(log, [op |-> "erase", img |-> img, pos |-> pos,
                           from |-> Len(out), to |-> Len(out')])
    /\ UNCHANGED imgs

\* Remove that clears the map
Remove_clear(m, id) == <<>>

\* imgs.remove(id)
Remove(m, id) == [k \in DOMAIN m \ {id} |-> m[k]]

\* handle that forgets to drop the entry
KittyImgsAfterHandle_keep(event) == imgs

\* the map handle leaves
KittyImgsAfterHandle(event) ==
    IF event.kind = "KittyImage" /\ event.error # None
    THEN Remove(imgs, event.id)
    ELSE imgs

\* the value handle returns
KittyHandleFilter(event) ==
    IF event.kind = "KittyImage" THEN event.error = None ELSE FALSE

KittyHandle(event) ==
    /\ Len(log) < MaxCalls
    /\ imgs' = KittyImgsAfterHandle(event)
    /\ log' = Append(log, [op |-> "handle", event |-> event,
                           ret |-> KittyHandleFilter(event), at |-> Len(out)])
    /\ UNCHANGED out

\* the Sixel/iTerm handler and the identifier functions, not in use
CacheIdle == hkind = "sixel" /\ cache = <<>> /\ size = 0 /\ cout = <<>> /\ clog = <<>>
IdIdle == idIn = <<>> /\ idOut = <<>>
OcIdle == octree = <<>> /\ oclog = <<>>
SixelIdle == sxIn = <<>> /\ sxOut = <<>>
FnIdle == fnIn = <<>> /\ fnOut = <<>>

KittyInit == KittyNew /\ CacheIdle /\ IdIdle /\ OcIdle /\ SixelIdle /\ FnIdle

KittyNext ==
    \/ \E img \in Images, pos \in Positions :
          KittyDraw(img, pos) /\ UNCHANGED <<cacheVars, idVars, ocVars, sixelVars, fnVars>>
    \/ \E img \in Images, pos \in ErasePositions :
          KittyErase(img, pos) /\ UNCHANGED <<cacheVars, idVars, ocVars, sixelVars, fnVars>>
    \/ \E event \in Events :
          KittyHandle(event) /\ UNCHANGED <<cacheVars, idVars, ocVars, sixelVars, fnVars>>

Spec == KittyInit /\ [][KittyNext]_vars

-----------------------------------------------------------------------------
(* KittyImageHandler::draw on a sink that fails: the fail-th write of a     *)
(* draw returns an error (fail = 0: none does) after cut tokens of it have  *)
(* reached the sink.                                                        *)

MaxSinkCalls == 2

\* the three writes of one iteration of the transfer loop: the control
\* data (write!), the chunk (write_all) and the epilogue (write_all)
ChunkWrites(frame) ==
    <<SubSeq(frame, 1, Len(frame) - 2), <<frame[Len(frame) - 1]>>,
      <<frame[Len(frame)]>>>>

RECURSIVE TransferWritesFrom(_, _, _, _)
TransferWritesFrom(img, img_id, index, count) ==
    IF index >= count THEN <<>>
    ELSE ChunkWrites(ChunkFrame(img, img_id, index, count))
         \o TransferWritesFrom(img, img_id, index + 1, count)

\* the writes that draw makes when none fails: those of the transfer loop
\* for a vacant entry, then the write! of the placement
KittyDrawWriteList(img, pos) ==
    (IF Vacant(kitty_image_id(img))
     THEN TransferWritesFrom(img, kitty_image_id(img), 0,
                             ChunkCount(PayloadLen(img)))
     ELSE <<>>)
    \o <<Placement(kitty_image_id(img), kitty_placement_id(pos))>>

\* the tokens of the first n writes
RECURSIVE WritesUpTo(_, _)
WritesUpTo(writes, n) ==
    IF n = 0 THEN <<>> ELSE WritesUpTo(writes, n - 1) \o writes[n]

\* what reaches the sink: every write before the one that fails and cut
\* tokens of that one; the `?` returns from draw at the failed write
SinkWrites(writes, fail, cut) ==
    IF fail = 0 THEN WritesUpTo(writes, Len(writes))
    ELSE WritesUpTo(writes, fail - 1) \o SubSeq(writes[fail], 1, cut)

\* entry.insert(img.size()) made before the transfer loop
KittyImgsAfterSinkDraw_early(img, img_id, writes, fail) ==
    KittyImgsAfterDraw(img, img_id)

\* imgs after draw: entry.insert is reached when no write of the transfer
\* loop has failed, the write of the placement comes after it
KittyImgsAfterSinkDraw(img, img_id, writes, fail) ==
    IF fail = 0 \/ fail = Len(writes) THEN KittyImgsAfterDraw(img, img_id)
    ELSE imgs

\* the tokens of a failed write that may have reached the sink: none, or
\* all but the last
Cuts(write) == {0, Len(write) - 1}

KittySinkDraw(img, pos, fail, cut) ==
    /\ Len(log) < MaxSinkCalls
    /\ fail <= Len(KittyDrawWriteList(img, pos))
    /\ IF fail = 0 THEN cut = 0
       ELSE cut \in Cuts(KittyDrawWriteList(img, pos)[fail])
    /\ imgs' = KittyImgsAfterSinkDraw(img, kitty_image_id(img),
                                      KittyDrawWriteList(img, pos), fail)
    /\ out' = out \o SinkWrites(KittyDrawWriteList(img, pos), fail, cut)
    /\ log' = Append(log, [op |-> "draw", img |-> img, pos |-> pos,
                           from |-> Len(out), to |-> Len(out'),
                           failed |-> fail,
                           ret |-> IF fail = 0 THEN "Ok" ELSE "IOError"])

SinkImages == {ImgA, ImgC}

SinkPosition == Position(3, 2)

\* the write that fails, 0 for none
SinkFails(img) == 0..Len(KittyDrawWriteList(img, SinkPosition))

\* how many tokens of the failed write reach the sink
SinkCuts(img, fail) ==
    IF fail = 0 THEN {0} ELSE Cuts(KittyDrawWriteList(img, SinkPosition)[fail])

SinkNext ==
    \E img \in SinkImages :
        \E fail \in SinkFails(img) :
            \E cut \in SinkCuts(img, fail) :
                /\ KittySinkDraw(img, SinkPosition, fail, cut)
                /\ UNCHANGED <<cacheVars, idVars, ocVars, sixelVars, fnVars>>

SpecSink == KittyInit /\ [][SinkNext]_vars

-----------------------------------------------------------------------------
(* The identifier functions on their own, over positions beyond 2^16.       *)

Coordinates == {0, 1, 3, 65535, 65536, 65537, 70000, 131071}

IdInit ==
    /\ idIn \in [img : Images, pos : {Position(r, c) : r \in Coordinates,
                                                         c \in Coordinates}]
    /\ idOut = <<>>
    /\ KittyNew /\ CacheIdle /\ OcIdle /\ SixelIdle /\ FnIdle

IdCall ==
    /\ idOut = <<>>
    /\ idOut' = [image_id |-> kitty_image_id(idIn.img),
                 placement_id |-> kitty_placement_id(idIn.pos)]
    /\ UNCHANGED <<idIn, kittyVars, cacheVars, ocVars, sixelVars, fnVars>>

SpecIds == IdInit /\ [][IdCall]_vars

-----------------------------------------------------------------------------
(* SixelImageHandler and ItermImageHandler: the cache of encoded images.    *)

IMAGE_CACHE_SIZE == 134217728

MaxCacheCalls == 4

\* an image with enc, the length of the byte string its encoder produces
CacheImage(hash, height, width, enc) ==
    [hash |-> hash, height |-> height, width |-> width, enc |-> enc]

CacheImages ==
    {CacheImage(U64(0, 0, 0, 1), 1, 1, 1),
     CacheImage(U64(0, 0, 0, 2), 4000, 4000, 134217727),
     CacheImage(U64(0, 7, 0, 3), 4200, 4200, 140000000),
     CacheImage(U64(0, 0, 0, 4), 0, 0, 40)}

IsEmpty(img) == img.height = 0 \/ img.width = 0

\* the encoded byte string of an image
Encoded(img) == [hash |-> img.hash, len |-> img.enc]

\* what encoding an image that is not cached can end in: the byte string
\* ("data"), no palette and an early Ok ("none"), an encoder error ("error")
EncodeOutcomes(kind, img) ==
    IF kind = "sixel"
    THEN IF IsEmpty(img) THEN {"none"} ELSE {"data"}
    ELSE IF IsEmpty(img) THEN {"error", "data"} ELSE {"data"}

\* LruCache: a sequence of <<key, value>> entries, least recently used first
Keys(c) == {c[i].key : i \in 1..Len(c)}
IndexOf(c, key) == CHOOSE i \in 1..Len(c) : c[i].key = key
Without(c, i) == SubSeq(c, 1, i - 1) \o SubSeq(c, i + 1, Len(c))

\* Promote that leaves the order of the entries as it is
Promote_noop(c, key) == c

\* Promote that drops the entry
Promote_forget(c, key) == Without(c, IndexOf(c, key))

\* LruCache::get on a key that is present: the entry becomes most recent
Promote(c, key) == Without(c, IndexOf(c, key)) \o <<c[IndexOf(c, key)]>>

\* LruCache::put
Put(c, key, value) ==
    (IF key \in Keys(c) THEN Without(c, IndexOf(c, key)) ELSE c)
    \o <<[key |-> key, value |-> value]>>

\* the cache after the eviction step that follows put
CacheAfterInsert(c, sz) ==
    IF sz > IMAGE_CACHE_SIZE /\ c # <<>> THEN Tail(c) ELSE c

\* SizeAfterInsert that subtracts the length of the entry just inserted
SizeAfterInsert_last(c, sz) ==
    IF sz > IMAGE_CACHE_SIZE /\ c # <<>> THEN sz - c[Len(c)].value.len ELSE sz

\* the size accumulator after the eviction step that follows put
SizeAfterInsert(c, sz) ==
    IF sz > IMAGE_CACHE_SIZE /\ c # <<>> THEN sz - Head(c).value.len ELSE sz

CacheNew(kind) ==
    /\ hkind = kind
    /\ cache = <<>>
    /\ size = 0
    /\ cout = <<>>
    /\ clog = <<>>

\* draw of an image that is cached; wok: the write succeeds
CacheDrawHit(img, wok) ==
    /\ Len(clog) < MaxCacheCalls
    /\ img.hash \in Keys(cache)
    /\ cache' = Promote(cache, img.hash)
    /\ cout' = Append(cout, [data |-> cache[IndexOf(cache, img.hash)].value,
                             complete |-> wok])
    /\ clog' = Append(clog, [op |-> "draw", img |-> img, hit |-> TRUE,
                             ok |-> wok, before |-> cache,
                             from |-> Len(cout), to |-> Len(cout) + 1])
    /\ UNCHANGED <<size, hkind>>

\* draw of an image that is not cached; outcome: how the encoding ends
CacheDrawMiss(img, outcome, wok) ==
    /\ Len(clog) < MaxCacheCalls
    /\ img.hash \notin Keys(cache)
    /\ outcome \in EncodeOutcomes(hkind, img)
    /\ clog' = Append(clog, [op |-> "draw", img |-> img, hit |-> FALSE,
                             ok |-> outcome = "none" \/ (outcome = "data" /\ wok),
                             before |-> cache, from |-> Len(cout),
                             to |-> Len(cout)
                                    + (IF outcome = "data" THEN 1 ELSE 0)])
    /\ IF outcome = "data"
       THEN /\ cout' = Append(cout, [data |-> Encoded(img), complete |-> wok])
            /\ IF wok
               THEN LET sz == size + Encoded(img).len
                        c == Put(cache, img.hash, Encoded(img))
                    IN /\ cache' = CacheAfterInsert(c, sz)
                       /\ size' = SizeAfterInsert(c, sz)
               ELSE UNCHANGED <<cache, size>>
       ELSE UNCHANGED <<cout, cache, size>>
    /\ UNCHANGED hkind

\* erase that empties the cache
CacheErase_clear(img, pos) ==
    /\ Len(clog) < MaxCacheCalls
    /\ clog' = Append(clog, [op |-> "erase", pos |-> pos, ok |-> TRUE])
    /\ cache' = <<>>
    /\ UNCHANGED <<hkind, size, cout>>

\* erase: Ok(()), whatever the image and the position (the log keeps the
\* position)
CacheErase(img, pos) ==
    /\ Len(clog) < MaxCacheCalls
    /\ clog' = Append(clog, [op |-> "erase", pos |-> pos, ok |-> TRUE])
    /\ UNCHANGED <<hkind, cache, size, cout>>

CacheHandle(event) ==
    /\ Len(clog) < MaxCacheCalls
    /\ clog' = Append(clog, [op |-> "handle", event |-> event, ret |-> FALSE])
    /\ UNCHANGED <<hkind, cache, size, cout>>

CacheInit ==
    /\ \E kind \in {"sixel", "iterm"} : CacheNew(kind)
    /\ KittyNew /\ IdIdle /\ OcIdle /\ SixelIdle /\ FnIdle

CacheNext ==
    \/ \E img \in CacheImages, wok \in BOOLEAN :
          CacheDrawHit(img, wok) /\ UNCHANGED <<kittyVars, idVars, ocVars, sixelVars, fnVars>>
    \/ \E img \in CacheImages, outcome \in {"data", "none", "error"},
          wok \in BOOLEAN :
          CacheDrawMiss(img, outcome, wok) /\ UNCHANGED <<kittyVars, idVars, ocVars, sixelVars, fnVars>>
    \/ \E img \in CacheImages, pos \in ErasePositions :
          CacheErase(img, pos) /\ UNCHANGED <<kittyVars, idVars, ocVars, sixelVars, fnVars>>
    \/ \E event \in {KittyImageEvent(W(5), None), [kind |-> "Key"]} :
          CacheHandle(event) /\ UNCHANGED <<kittyVars, idVars, ocVars, sixelVars, fnVars>>

SpecCache == CacheInit /\ [][CacheNext]_vars

-----------------------------------------------------------------------------
(* DummyImageHandler: a handler without fields.                             *)

MaxDummyCalls == 3

\* draw that writes the image to the sink
DummyDraw_writes(img, pos) ==
    /\ Len(clog) < MaxDummyCalls
    /\ cout' = Append(cout, [data |-> Encoded(img), complete |-> TRUE])
    /\ clog' = Append(clog, [op |-> "draw", img |-> img, pos |-> pos,
                             ok |-> TRUE])
    /\ UNCHANGED <<hkind, cache, size>>

\* draw: Ok(())
DummyDraw(img, pos) ==
    /\ Len(clog) < MaxDummyCalls
    /\ clog' = Append(clog, [op |-> "draw", img |-> img, pos |-> pos,
                             ok |-> TRUE])
    /\ UNCHANGED <<hkind, cache, size, cout>>

\* erase: Ok(())
DummyErase(img, pos) ==
    /\ Len(clog) < MaxDummyCalls
    /\ clog' = Append(clog, [op |-> "erase", img |-> img, pos |-> pos,
                             ok |-> TRUE])
    /\ UNCHANGED <<hkind, cache, size, cout>>

\* handle: Ok(false)
DummyHandle(event) ==
    /\ Len(clog) < MaxDummyCalls
    /\ clog' = Append(clog, [op |-> "handle", event |-> event, ok |-> TRUE,
                             ret |-> FALSE])
    /\ UNCHANGED <<hkind, cache, size, cout>>

DummyInit ==
    /\ CacheNew("dummy")
    /\ KittyNew /\ IdIdle /\ OcIdle /\ SixelIdle /\ FnIdle

DummyNext ==
    \/ \E img \in CacheImages, pos \in Positions :
          DummyDraw(img, pos) /\ UNCHANGED <<kittyVars, idVars, ocVars, sixelVars, fnVars>>
    \/ \E img \in CacheImages, pos \in ErasePositions :
          DummyErase(img, pos) /\ UNCHANGED <<kittyVars, idVars, ocVars, sixelVars, fnVars>>
    \/ \E event \in {KittyImageEvent(W(5), None), [kind |-> "Key"]} :
          DummyHandle(event) /\ UNCHANGED <<kittyVars, idVars, ocVars, sixelVars, fnVars>>

SpecDummy == DummyInit /\ [][DummyNext]_vars

-----------------------------------------------------------------------------
(* OcTree: the prefix tree of colors used to extract a palette.             *)
(* A color is <<red, green, blue, alpha>>, each channel in 0..255.          *)

RGBA(r, g, b, a) == <<r, g, b, a>>

\* OcTreeLeaf
OcTreeLeaf(red_acc, green_acc, blue_acc, color_count, index) ==
    [red_acc |-> red_acc, green_acc |-> green_acc, blue_acc |-> blue_acc,
     color_count |-> color_count, index |-> index]

\* OcTreeLeaf::new
leaf_new == OcTreeLeaf(0, 0, 0, 0, 0)

\* OcTreeLeaf::from_rgba
leaf_from_rgba(rgba) == OcTreeLeaf(rgba[1], rgba[2], rgba[3], 1, 0)

\* OcTreeLeaf::to_rgba, for a leaf with color_count > 0
leaf_to_rgba(leaf) ==
    RGBA(leaf.red_acc \div leaf.color_count,
         leaf.green_acc \div leaf.color_count,
         leaf.blue_acc \div leaf.color_count, 255)

\* AddAssign<RGBA> for OcTreeLeaf that leaves color_count as it is
leaf_add_rgba_nocount(leaf, rgba) ==
    OcTreeLeaf(leaf.red_acc + rgba[1], leaf.green_acc + rgba[2],
               leaf.blue_acc + rgba[3], leaf.color_count, leaf.index)

\* AddAssign<RGBA> for OcTreeLeaf
leaf_add_rgba(leaf, rgba) ==
    OcTreeLeaf(leaf.red_acc + rgba[1], leaf.green_acc + rgba[2],
               leaf.blue_acc + rgba[3], leaf.color_count + 1, leaf.index)

\* AddAssign<OcTreeLeaf> for OcTreeLeaf
leaf_add_leaf(leaf, rhs) ==
    OcTreeLeaf(leaf.red_acc + rhs.red_acc, leaf.green_acc + rhs.green_acc,
               leaf.blue_acc + rhs.blue_acc,
               leaf.color_count + rhs.color_count, leaf.index)

\* OcTreeNode
Empty == [tag |-> "Empty"]
Leaf(leaf) == [tag |-> "Leaf", leaf |-> leaf]
Tree(tree) == [tag |-> "Tree", tree |-> tree]
\* a node that the code has no value for: it reached unreachable!()
Unreachable == [tag |-> "Unreachable"]

is_empty(node) == node.tag = "Empty"

\* OcTreeInfo
OcTreeInfo(leaf_count, color_count, min_color_count) ==
    [leaf_count |-> leaf_count, color_count |-> color_count,
     min_color_count |-> min_color_count]

\* OcTreeInfo::empty
info_empty == OcTreeInfo(0, 0, None)

\* OcTreeInfo::join
join(self, other) ==
    OcTreeInfo(self.leaf_count + other.leaf_count,
               self.color_count + other.color_count,
               IF self.min_color_count # None /\ other.min_color_count # None
               THEN Some(IF self.min_color_count[1] <= other.min_color_count[1]
                         THEN self.min_color_count[1]
                         ELSE other.min_color_count[1])
               ELSE IF other.min_color_count # None THEN other.min_color_count
               ELSE self.min_color_count)

\* OcTreeNode::info
node_info(node) ==
    IF node.tag = "Leaf"
    THEN OcTreeInfo(1, node.leaf.color_count, Some(node.leaf.color_count))
    ELSE IF node.tag = "Tree" THEN node.tree.info
    ELSE info_empty

\* the least of the min_color_counts that are Some
min_option(mins) ==
    IF mins = {} THEN None ELSE Some(CHOOSE x \in mins : \A y \in mins : x <= y)

\* the join of 8 infos from empty: the counts added up and the least
\* min_color_count
join_all(info) ==
    OcTreeInfo(info[1].leaf_count + info[2].leaf_count + info[3].leaf_count
               + info[4].leaf_count + info[5].leaf_count + info[6].leaf_count
               + info[7].leaf_count + info[8].leaf_count,
               info[1].color_count + info[2].color_count + info[3].color_count
               + info[4].color_count + info[5].color_count
               + info[6].color_count + info[7].color_count
               + info[8].color_count,
               min_option({info[k].min_color_count[1] :
                              k \in {i \in 1..8 : info[i].min_color_count # None}}))

\* OcTreeInfo::from_slice: the fold of join over the infos of the 8 nodes
from_slice(slice) == join_all([k \in 1..8 |-> node_info(slice[k])] \o <<>>)

\* OcTree
OcTree(info, removed, children) ==
    [info |-> info, removed |-> removed, children |-> children]

\* OcTree::new
octree_new ==
    OcTree(info_empty, leaf_new,
           <<Empty, Empty, Empty, Empty, Empty, Empty, Empty, Empty>>)

\* path_value with the blue bit as the high bit
path_value_bgr(state) ==
    4 * ((state \div 128) % 2) + 2 * ((state \div 32768) % 2)
    + ((state \div 8388608) % 2)

\* one step of the OcTreePath iterator on its 24 bit state: the index made
\* of the top bits of the three bytes, and the state shifted left by one
path_value(state) ==
    4 * ((state \div 8388608) % 2) + 2 * ((state \div 32768) % 2)
    + ((state \div 128) % 2)

path_shift(state) ==
    2 * ((state \div 65536) % 128) * 65536 + 2 * ((state \div 256) % 128) * 256
    + 2 * (state % 128)

RECURSIVE path_from(_, _)
path_from(state, length) ==
    IF length = 0 THEN <<>>
    ELSE <<path_value(state)>> \o path_from(path_shift(state), length - 1)

\* the indices that OcTreePath::new(rgba) yields, in order
OcTreePath(rgba) == path_from(rgba[1] * 65536 + rgba[2] * 256 + rgba[3], 8)

\* children[index] for an index of the code (from 0)
child(tree, index) == tree.children[index + 1]

\* OcTree::node_update, with the node that func returns
node_update(tree, index, node) ==
    LET children == [tree.children EXCEPT ![index + 1] = node]
    IN OcTree(from_slice(children), tree.removed, children)

\* Tree(tree) after tree.node_update(index, |_| node); a node that could
\* not be made leaves none
tree_with(tree, index, node) ==
    IF node.tag = "Unreachable" THEN Unreachable
    ELSE Tree(node_update(tree, index, node))

\* insert_rec that makes a leaf one level early
RECURSIVE insert_rec_early(_, _, _)
insert_rec_early(node, path, rgba) ==
    IF Len(path) > 1
    THEN IF node.tag = "Empty"
         THEN tree_with(octree_new, Head(path),
                        insert_rec_early(Empty, Tail(path), rgba))
         ELSE IF node.tag = "Leaf" THEN Leaf(leaf_add_rgba(node.leaf, rgba))
         ELSE tree_with(node.tree, Head(path),
                        insert_rec_early(child(node.tree, Head(path)),
                                         Tail(path), rgba))
    ELSE IF node.tag = "Empty" THEN Leaf(leaf_from_rgba(rgba))
    ELSE IF node.tag = "Leaf" THEN Leaf(leaf_add_rgba(node.leaf, rgba))
    ELSE Unreachable

\* insert_rec: path holds the indices still to come
RECURSIVE insert_rec(_, _, _)
insert_rec(node, path, rgba) ==
    IF path # <<>>
    THEN IF node.tag = "Empty"
         THEN tree_with(octree_new, Head(path),
                        insert_rec(Empty, Tail(path), rgba))
         ELSE IF node.tag = "Leaf" THEN Leaf(leaf_add_rgba(node.leaf, rgba))
         ELSE tree_with(node.tree, Head(path),
                        insert_rec(child(node.tree, Head(path)),
                                   Tail(path), rgba))
    ELSE IF node.tag = "Empty" THEN Leaf(leaf_from_rgba(rgba))
    ELSE IF node.tag = "Leaf" THEN Leaf(leaf_add_rgba(node.leaf, rgba))
    ELSE Unreachable

\* self.node_update(index, |_| node) at the root
root_with(tree, index, node) ==
    IF node.tag = "Unreachable" THEN tree ELSE node_update(tree, index, node)

\* insert along the indices of the path
insert_path(tree, path, rgba) ==
    root_with(tree, Head(path),
              insert_rec(child(tree, Head(path)), Tail(path), rgba))

\* OcTree::insert
insert(tree, rgba) == insert_path(tree, OcTreePath(rgba), rgba)

\* the indices (from 0) of the children that have a min_color_count
with_min(tree) ==
    {i \in 0..7 : node_info(child(tree, i)).min_color_count # None}

\* min_by_key: the first of the indices with the least min_color_count
first_min(tree, indices) ==
    IF indices = {} THEN None
    ELSE Some(CHOOSE i \in indices :
                \A j \in indices :
                   \/ node_info(child(tree, i)).min_color_count[1]
                         < node_info(child(tree, j)).min_color_count[1]
                   \/ /\ node_info(child(tree, i)).min_color_count[1]
                           = node_info(child(tree, j)).min_color_count[1]
                      /\ i <= j)

\* argmin_color_count: the first child with the least min_color_count
argmin_color_count(tree) == first_min(tree, with_min(tree))

\* the tree with children[index] taken (replaced by Empty), info as it was
taken(tree, index) ==
    [tree EXCEPT !.children = [tree.children EXCEPT ![index + 1] = Empty]]

all_empty(tree) == \A i \in 0..7 : is_empty(child(tree, i))

\* tree.removed = leaf in the place of tree.removed += leaf
add_removed_only(tree, leaf) == [tree EXCEPT !.removed = leaf]

add_removed(tree, leaf) ==
    [tree EXCEPT !.removed = leaf_add_leaf(tree.removed, leaf)]

RECURSIVE prune_rec(_)

\* the arm Leaf(leaf) of prune_rec, after tree.removed += leaf
prune_rec_leaf(tree) ==
    IF all_empty(tree) THEN Leaf(tree.removed) ELSE Tree(tree)

\* the arm Tree(child_tree) of prune_rec without tree.removed += leaf
prune_rec_tree_forget(tree, index, node) ==
    IF node.tag = "Leaf" /\ all_empty(tree)
    THEN Leaf(tree.removed)
    ELSE Tree(node_update(tree, index, node))

\* the arm Tree(child_tree) of prune_rec, child being what prune_rec made
\* of the child tree
prune_rec_tree(tree, index, node) ==
    IF node.tag = "Leaf" /\ all_empty(tree)
    THEN Leaf(add_removed(tree, node.leaf).removed)
    ELSE Tree(node_update(tree, index, node))

\* the match on tree.children[index].take(): tree has the child taken
prune_rec_taken(tree, index, node) ==
    IF node.tag = "Leaf" THEN prune_rec_leaf(add_removed(tree, node.leaf))
    ELSE IF node.tag = "Tree"
    THEN prune_rec_tree(tree, index, prune_rec(node.tree))
    ELSE Unreachable

\* the match on argmin_color_count(&tree)
prune_rec_found(tree, found) ==
    IF found = None THEN Leaf(tree.removed)
    ELSE prune_rec_taken(taken(tree, found[1]), found[1],
                         child(tree, found[1]))

\* prune_rec
prune_rec(tree) == prune_rec_found(tree, argmin_color_count(tree))

\* the match on self.children[index].take(): tree has the child taken
prune_taken(tree, index, node) ==
    IF node.tag = "Leaf" THEN add_removed(tree, node.leaf)
    ELSE node_update(tree, index, prune_rec(node.tree))

prune_found(tree, found) ==
    IF found = None THEN tree
    ELSE prune_taken(taken(tree, found[1]), found[1], child(tree, found[1]))

\* OcTree::prune
prune(tree) == prune_found(tree, argmin_color_count(tree))

\* prune_count with the sum in place of the maximum
prune_count_sum(color_count) == color_count + 8

\* color_count.min(8) in the place of color_count.max(8)
prune_count_min(color_count) == IF color_count < 8 THEN color_count ELSE 8

\* color_count.max(8)
prune_count(color_count) == IF color_count > 8 THEN color_count ELSE 8

\* the loop of prune_until after one self.prune() that made pruned of
\* tree: it goes on with pruned, and never ends when the prune changed nothing
prune_pruned(tree, pruned) ==
    IF pruned = tree THEN [tree |-> tree, ends |-> FALSE, going |-> FALSE]
    ELSE [tree |-> pruned, ends |-> FALSE, going |-> TRUE]

\* one test of the loop condition of prune_until and the prune that follows
prune_step(st, count) ==
    IF ~st.going THEN st
    ELSE IF ~(st.tree.info.leaf_count > count)
    THEN [tree |-> st.tree, ends |-> TRUE, going |-> FALSE]
    ELSE prune_pruned(st.tree, prune(st.tree))

RECURSIVE prune_loop(_, _, _)

\* up to n more iterations after the ones that gave st
prune_more(st, count, n) ==
    IF st.going THEN prune_loop(st, count, n) ELSE st

\* up to n iterations of the loop of prune_until
prune_loop(st, count, n) ==
    IF n <= 1 THEN prune_step(st, count)
    ELSE prune_more(prune_loop(st, count, n \div 2), count, n - n \div 2)

\* a number of iterations the loop cannot exceed while every prune changes
\* the tree: a prune takes a Leaf out or turns a Tree into a Leaf, and a
\* tree of 8 levels has at most 7 Trees above each Leaf
prune_limit(tree) == 15 * tree.info.leaf_count + 16

\* what the loop leaves: the tree, and whether the loop ends
prune_result(st) == [tree |-> st.tree, ends |-> st.ends]

\* OcTree::prune_until
prune_until(tree, color_count) ==
    prune_result(prune_loop([tree |-> tree, ends |-> FALSE, going |-> TRUE],
                            prune_count(color_count), prune_limit(tree)))

RECURSIVE extend_range(_, _, _, _)

\* extend over the colors lo..hi of a tree that has been built
extend_built(tree, colors, lo, hi) ==
    IF tree.info.color_count >= 0 THEN extend_range(tree, colors, lo, hi)
    ELSE tree

\* extend over the colors lo..hi, in order
extend_range(tree, colors, lo, hi) ==
    IF lo > hi THEN tree
    ELSE IF lo = hi THEN insert(tree, colors[lo])
    ELSE extend_built(extend_range(tree, colors, lo, (lo + hi) \div 2),
                      colors, (lo + hi) \div 2 + 1, hi)

\* FromIterator<RGBA> for OcTree
from_iter(colors) == extend_range(octree_new, colors, 1, Len(colors))

\* the loop of OcTree::find from the k-th index of the path on: None at an
\* Empty node and at the end of the path, the first Leaf met otherwise
RECURSIVE find_from(_, _, _)
find_from(tree, path, k) ==
    IF k > Len(path) THEN None
    ELSE IF child(tree, path[k]).tag = "Leaf"
    THEN Some(<<child(tree, path[k]).leaf.index,
                leaf_to_rgba(child(tree, path[k]).leaf)>>)
    ELSE IF child(tree, path[k]).tag = "Tree"
    THEN find_from(child(tree, path[k]).tree, path, k + 1)
    ELSE None

\* OcTree::find
find(tree, color) == find_from(tree, OcTreePath(color), 1)

\* palette_rec: the colors pushed for a node, those of its leaves in the
\* order of the children
RECURSIVE palette_rec(_)
palette_rec(node) ==
    IF node.tag = "Leaf" THEN <<leaf_to_rgba(node.leaf)>>
    ELSE IF node.tag = "Tree"
    THEN palette_rec(node.tree.children[1]) \o palette_rec(node.tree.children[2])
         \o palette_rec(node.tree.children[3]) \o palette_rec(node.tree.children[4])
         \o palette_rec(node.tree.children[5]) \o palette_rec(node.tree.children[6])
         \o palette_rec(node.tree.children[7]) \o palette_rec(node.tree.children[8])
    ELSE <<>>

\* OcTree::build_palette: the vector it returns
build_palette(tree) == palette_rec(Tree(tree))

RECURSIVE indexed_tree(_, _)

\* palette_rec with the index of a leaf taken after the push
indexed_rec_after(node, len) ==
    IF node.tag = "Leaf" THEN Leaf([node.leaf EXCEPT !.index = len + 1])
    ELSE IF node.tag = "Tree" THEN Tree(indexed_tree(node.tree, len))
    ELSE node

\* palette_rec: the node it leaves, for a palette of len entries before it;
\* a leaf takes leaf.index = palette.len()
indexed_rec(node, len) ==
    IF node.tag = "Leaf" THEN Leaf([node.leaf EXCEPT !.index = len])
    ELSE IF node.tag = "Tree" THEN Tree(indexed_tree(node.tree, len))
    ELSE node

\* the entries that the children before the k-th have pushed
RECURSIVE pushed_before(_, _)
pushed_before(tree, k) ==
    IF k = 1 THEN 0
    ELSE pushed_before(tree, k - 1) + Len(palette_rec(tree.children[k - 1]))

\* the loop over the children of a tree, for a palette of len entries
indexed_tree(tree, len) ==
    [tree EXCEPT
        !.children = [k \in 1..8 |->
                         indexed_rec(tree.children[k],
                                     len + pushed_before(tree, k))] \o <<>>]

\* OcTree::build_palette: the tree it leaves
build_palette_tree(tree) == indexed_tree(tree, 0)

-----------------------------------------------------------------------------
(* An OcTree built from a list of colors, then inserted into and pruned.    *)

MaxTreeCalls == 3

\* the colors an OcTree is built from: two pairs of colors that differ in
\* their last index only, and colors that part at the root
ColorList ==
    <<RGBA(0, 0, 0, 255), RGBA(0, 0, 1, 255), RGBA(0, 0, 1, 255),
      RGBA(0, 0, 2, 255), RGBA(0, 0, 3, 255),
      RGBA(255, 255, 255, 255), RGBA(255, 255, 255, 255),
      RGBA(128, 0, 0, 255), RGBA(0, 128, 0, 255), RGBA(0, 0, 128, 255),
      RGBA(128, 128, 0, 255), RGBA(128, 0, 128, 255), RGBA(0, 128, 128, 255)>>

OcStarts == {SubSeq(ColorList, 1, k) : k \in 0..Len(ColorList)}

OcInserts == {RGBA(0, 0, 0, 255), RGBA(0, 0, 4, 255), RGBA(255, 255, 254, 255)}

PruneTargets == {0, 9}

\* the last call has returned
OcReady ==
    /\ Len(oclog) <= MaxTreeCalls
    /\ oclog[Len(oclog)].ends

OcInsert(rgba) ==
    /\ OcReady
    /\ octree' = insert(octree, rgba)
    /\ oclog' = Append(oclog, [op |-> "insert", rgba |-> rgba, ends |-> TRUE])

OcPrune ==
    /\ OcReady
    /\ octree' = prune(octree)
    /\ oclog' = Append(oclog, [op |-> "prune", ends |-> TRUE])

OcPruneUntil(color_count) ==
    /\ OcReady
    /\ LET r == prune_until(octree, color_count)
       IN /\ octree' = r.tree
          /\ oclog' = Append(oclog, [op |-> "prune_until",
                                     color_count |-> color_count,
                                     ends |-> r.ends])

OcBuildPalette ==
    /\ OcReady
    /\ octree' = build_palette_tree(octree)
    /\ oclog' = Append(oclog, [op |-> "build_palette",
                               palette |-> build_palette(octree),
                               ends |-> TRUE])

OcInit ==
    /\ \E colors \in OcStarts :
          /\ octree = from_iter(colors)
          /\ oclog = <<[op |-> "from_iter", colors |-> colors, ends |-> TRUE]>>
    /\ KittyNew /\ CacheIdle /\ IdIdle /\ SixelIdle /\ FnIdle

OcNext ==
    \/ \E rgba \in OcInserts :
          OcInsert(rgba) /\ UNCHANGED <<kittyVars, cacheVars, idVars, sixelVars, fnVars>>
    \/ OcPrune /\ UNCHANGED <<kittyVars, cacheVars, idVars, sixelVars, fnVars>>
    \/ OcBuildPalette
       /\ UNCHANGED <<kittyVars, cacheVars, idVars, sixelVars, fnVars>>
    \/ \E color_count \in PruneTargets :
          OcPruneUntil(color_count)
          /\ UNCHANGED <<kittyVars, cacheVars, idVars, sixelVars, fnVars>>

SpecOcTree == OcInit /\ [][OcNext]_vars

-----------------------------------------------------------------------------
(* Surfaces: height, width and the items row by row.                        *)

Surface(height, width, data) ==
    [height |-> height, width |-> width, data |-> data]

\* Surface::get: Some(item) inside the surface, None outside
surface_get(surf, row, col) ==
    IF row < surf.height /\ col < surf.width
    THEN Some(surf.data[row * surf.width + col + 1])
    ELSE None

surface_is_empty(surf) == surf.height = 0 \/ surf.width = 0

\* n copies of x
Repeat(x, n) == [i \in 1..n |-> x] \o <<>>

-----------------------------------------------------------------------------
(* KDTree: the search tree of the colors of a palette.                      *)

\* KDNode; left and right are None or Some(position in nodes), from 1
KDNode(color, color_index, dim, left, right) ==
    [color |-> color, color_index |-> color_index, dim |-> dim,
     left |-> left, right |-> right]

\* the positions in the sorted order of the entries with the given keys: an
\* entry comes after the entries with a smaller key and the earlier entries
\* with its key
sort_ranks(key) ==
    [i \in 1..Len(key) |->
        Cardinality({j \in 1..Len(key) :
            key[j] < key[i] \/ (key[j] = key[i] /\ j < i)}) + 1] \o <<>>

\* the entries put at their positions
sort_place(colors, rank) ==
    [p \in 1..Len(colors) |->
        colors[CHOOSE i \in 1..Len(colors) : rank[i] = p]] \o <<>>

\* colors.sort_by_key(|(_, c)| c[dim]), a stable sort
sort_by_key(colors, dim) ==
    sort_place(colors,
               sort_ranks([i \in 1..Len(colors) |-> colors[i][2][dim + 1]]
                          \o <<>>))

RECURSIVE build_rec(_, _, _)

\* the push of the node of colors[index] after both subtrees are built
build_push(dim, sorted, left, right) ==
    [nodes |-> right.nodes
               \o <<KDNode(sorted[Len(sorted) \div 2 + 1][2],
                           sorted[Len(sorted) \div 2 + 1][1],
                           dim, left.root, right.root)>>,
     root |-> Some(Len(right.nodes) + 1)]

\* build_rec of &mut colors[(index + 1)..] after the left subtree is built
build_right(dim, sorted, left) ==
    IF Len(left.nodes) >= 0
    THEN build_push(dim, sorted, left,
                    build_rec((dim + 1) % 3, left.nodes,
                              SubSeq(sorted, Len(sorted) \div 2 + 2,
                                     Len(sorted))))
    ELSE left

\* build_rec of &mut colors[..index] after the sort, index = len / 2
build_left(dim, nodes, sorted) ==
    build_right(dim, sorted,
                build_rec((dim + 1) % 3, nodes,
                          SubSeq(sorted, 1, Len(sorted) \div 2)))

\* build_rec: the nodes pushed so far and the position of the subtree's root
build_rec(dim, nodes, colors) ==
    IF colors = <<>> THEN [nodes |-> nodes, root |-> None]
    ELSE IF Len(colors) = 1
    THEN [nodes |-> nodes \o <<KDNode(colors[1][2], colors[1][1], dim,
                                      None, None)>>,
          root |-> Some(Len(nodes) + 1)]
    ELSE build_left(dim, nodes, sort_by_key(colors, dim))

\* KDTree::new with the colors enumerated from 1
kdtree_new_from1(colors) ==
    build_rec(0, <<>>,
              [i \in 1..Len(colors) |->
                  <<i, <<colors[i][1], colors[i][2], colors[i][3]>>>>]
              \o <<>>).nodes

\* KDTree::new: the nodes, the root pushed last
kdtree_new(colors) ==
    build_rec(0, <<>>,
              [i \in 1..Len(colors) |->
                  <<i - 1, <<colors[i][1], colors[i][2], colors[i][3]>>>>]
              \o <<>>).nodes

\* dist: the squared distance of rgb to the color of a node
dist(rgb, node) ==
    (rgb[1] - node.color[1]) * (rgb[1] - node.color[1])
    + (rgb[2] - node.color[2]) * (rgb[2] - node.color[2])
    + (rgb[3] - node.color[3]) * (rgb[3] - node.color[3])

RECURSIVE find_rec(_, _, _)

\* the nearer of the guess and what a subtree gave; the guess when they are
\* as near
nearer(guess, found) == IF found[2] >= guess[2] THEN guess ELSE found

\* the guess: the node, or what the subtree next gives when it is nearer
find_next(nodes, node, node_dist, next, target) ==
    IF next = None THEN <<node, node_dist>>
    ELSE nearer(<<node, node_dist>>, find_rec(nodes, next[1], target))

\* find_rec that never looks into the other branch
find_other_skip(nodes, node, other, target, guess) == guess

\* the check of the other branch
find_other(nodes, node, other, target, guess) ==
    IF (target[node.dim + 1] - node.color[node.dim + 1])
       * (target[node.dim + 1] - node.color[node.dim + 1]) >= guess[2]
    THEN guess
    ELSE IF other = None THEN guess
    ELSE nearer(guess, find_rec(nodes, other[1], target))

find_node(nodes, node, target) ==
    IF target[node.dim + 1] < node.color[node.dim + 1]
    THEN find_other(nodes, node, node.right, target,
                    find_next(nodes, node, dist(target, node), node.left,
                              target))
    ELSE find_other(nodes, node, node.left, target,
                    find_next(nodes, node, dist(target, node), node.right,
                              target))

\* find_rec: <<node, distance>>
find_rec(nodes, index, target) == find_node(nodes, nodes[index], target)

\* the result of find for the node found
found_color(node) ==
    <<node.color_index, RGBA(node.color[1], node.color[2], node.color[3], 255)>>

\* KDTree::find: <<color_index, color>>
kdtree_find(nodes, color) ==
    found_color(find_rec(nodes, Len(nodes),
                         <<color[1], color[2], color[3]>>)[1])

-----------------------------------------------------------------------------
(* ColorPalette and Image::quantize, for opaque images. A call returns a    *)
(* value or panics; the u32 that Rnd::next_u32 gives (common.rs is not in   *)
(* the sources) are an argument, rnd, taken in turn and over again.         *)

\* the call has returned value
Returned(value) == [panics |-> FALSE, value |-> value]

\* the call has panicked
Panicked == [panics |-> TRUE, value |-> None]

\* ColorPalette::new
palette_new(colors) ==
    IF colors = <<>> THEN None
    ELSE Some([colors |-> colors, kdtree |-> kdtree_new(colors)])

\* the palette made of the pruned tree
palette_pruned(pruned) ==
    IF pruned.tree.info.leaf_count >= 0
    THEN palette_new(build_palette(pruned.tree))
    ELSE None

\* the palette of the tree that holds the pixels
palette_collected(tree, palette_size) ==
    IF tree.info.leaf_count >= 0
    THEN palette_pruned(prune_until(tree, palette_size))
    ELSE None

\* how far the first n calls of colors.nth(rnd.next_u32() % sample) move
\* the iterator, n at most Len(rnd)
RECURSIVE nth_moves(_, _, _)
nth_moves(rnd, sample, n) ==
    IF n = 0 THEN 0
    ELSE nth_moves(rnd, sample, n - 1) + (rnd[n] % sample) + 1

\* the index (from 0) of the pixel that the j-th call of colors.nth gives
nth_index(rnd, sample, j) ==
    ((j - 1) \div Len(rnd)) * nth_moves(rnd, sample, Len(rnd))
    + nth_moves(rnd, sample, ((j - 1) % Len(rnd)) + 1) - 1

\* the first count pixels that colors.nth gives
sampled_first(data, rnd, sample, count) ==
    [j \in 1..count |-> data[nth_index(rnd, sample, j) + 1]] \o <<>>

\* the pixels inserted by the while loop: those colors.nth gives before it
\* gives None
sampled(data, rnd, sample) ==
    sampled_first(data, rnd, sample,
                  Cardinality({j \in 1..Len(data) :
                                  nth_index(rnd, sample, j) < Len(data)}))

\* sample, for palette_size * 100 > 0
sample_of(img, palette_size) ==
    (img.height * img.width) \div (palette_size * 100)

\* the OcTree of the pixels: of all of them, or of the sampled ones
from_image_octree(img, rnd, sample) ==
    IF sample < 2 THEN from_iter(img.data)
    ELSE from_iter(sampled(img.data, rnd, sample))

\* ColorPalette::from_image: None for an empty image, a panic of the
\* division by palette_size * 100 = 0, Some(palette) otherwise
from_image(img, palette_size, rnd) ==
    IF surface_is_empty(img) THEN Returned(None)
    ELSE IF palette_size * 100 = 0 THEN Panicked
    ELSE Returned(palette_collected(
             from_image_octree(img, rnd, sample_of(img, palette_size)),
             palette_size))

\* ColorPalette::find
palette_find(palette, color) == kdtree_find(palette.kdtree, color)

\* dist of find_naive: the squared distance of two colors
naive_dist(c0, c1) ==
    (c0[1] - c1[1]) * (c0[1] - c1[1]) + (c0[2] - c1[2]) * (c0[2] - c1[2])
    + (c0[3] - c1[3]) * (c0[3] - c1[3])

\* one step of the fold of find_naive: <<best_index, best_dist>> after index
naive_step(best, index, d) == IF d < best[2] THEN <<index, d>> ELSE best

\* the fold of find_naive over the indices 1..index (from 0)
RECURSIVE naive_fold(_, _, _)
naive_fold(colors, color, index) ==
    IF index = 0 THEN <<0, naive_dist(color, colors[1])>>
    ELSE naive_step(naive_fold(colors, color, index - 1), index,
                    naive_dist(color, colors[index + 1]))

\* the result of find_naive for the best index
naive_found(colors, best_index) == <<best_index, colors[best_index + 1]>>

\* ColorPalette::find_naive: <<index, color>>
find_naive(palette, color) ==
    naive_found(palette.colors,
                naive_fold(palette.colors, color, Len(palette.colors) - 1)[1])

\* ColorError, in sixteenths: the errors the code adds up are multiples of
\* 1/16 below 2^12, which f32 holds exactly
error_new == <<0, 0, 0>>

\* ColorError::between
error_between(c0, c1) ==
    <<16 * (c0[1] - c1[1]), 16 * (c0[2] - c1[2]), 16 * (c0[3] - c1[3])>>

\* x + e as it is, not clamped
clamp_u8_unclamped(x, e) == (16 * x + e) \div 16

\* clamp(x + e, 0.0, 255.0) as u8
clamp_u8(x, e) ==
    LET v == 16 * x + e
    IN IF v < 0 THEN 0 ELSE IF v > 16 * 255 THEN 255 ELSE v \div 16

\* ColorError::add
error_add(e, color) ==
    RGBA(clamp_u8(color[1], e[1]), clamp_u8(color[2], e[2]),
         clamp_u8(color[3], e[3]), 255)

\* error * (n / 16), added to errors[at] (at from 0)
spread_to(errors, at, error, n) ==
    [errors EXCEPT ![at + 1] =
        <<@[1] + (error[1] * n) \div 16, @[2] + (error[2] * n) \div 16,
          @[3] + (error[3] * n) \div 16>>]

\* the four additions of the Floyd-Steinberg matrix
spread(errors, col, ewidth, error) ==
    spread_to(spread_to(spread_to(spread_to(errors, col + 2, error, 7),
                                  col + ewidth, error, 3),
                        col + ewidth + 1, error, 5),
              col + ewidth + 2, error, 1)

\* the swap of the error rows at the start of a row
swap_rows(errors, ewidth) ==
    SubSeq(errors, ewidth + 1, 2 * ewidth) \o Repeat(error_new, ewidth)

\* the end of an iteration: qimg.set and the spread of the error; asked
\* keeps the colors handed to palette.find
quantize_found(errors, col, ewidth, dither, color, found, st) ==
    [errors |-> IF dither
                THEN spread(errors, col, ewidth,
                            error_between(color, found[2]))
                ELSE errors,
     qdata |-> st.qdata \o <<found[1]>>,
     asked |-> st.asked \o <<color>>]

\* palette.find(color)
quantize_color(palette, errors, col, ewidth, dither, color, st) ==
    quantize_found(errors, col, ewidth, dither, color,
                   palette_find(palette, color), st)

\* the iteration for the pixel at (row, col), the error rows swapped
quantize_at(img, palette, dither, row, col, errors, st) ==
    quantize_color(palette, errors, col, img.width + 2, dither,
                   IF dither
                   THEN error_add(errors[col + 2],
                                  surface_get(img, row, col)[1])
                   ELSE surface_get(img, row, col)[1],
                   st)

\* one iteration of the loop of quantize, for pixel p (row by row): the
\* errors and the indexed data after it
quantize_pixel(img, palette, dither, p, st) ==
    quantize_at(img, palette, dither, p \div img.width, p % img.width,
                IF dither /\ p % img.width = 0
                THEN swap_rows(st.errors, img.width + 2)
                ELSE st.errors,
                st)

RECURSIVE quantize_range(_, _, _, _, _, _)

\* the iterations for the pixels lo..hi after the ones before them
quantize_rest(img, palette, dither, lo, hi, st) ==
    IF Len(st.qdata) >= 0 THEN quantize_range(img, palette, dither, lo, hi, st)
    ELSE st

\* the iterations for the pixels lo..hi, in order
quantize_range(img, palette, dither, lo, hi, st) ==
    IF lo > hi THEN st
    ELSE IF lo = hi THEN quantize_pixel(img, palette, dither, lo, st)
    ELSE quantize_rest(img, palette, dither, (lo + hi) \div 2 + 1, hi,
                       quantize_range(img, palette, dither, lo,
                                      (lo + hi) \div 2, st))

\* what quantize returns after the loop
quantize_done(img, palette, st) ==
    Some([palette |-> palette,
          qimg |-> Surface(img.height, img.width, st.qdata),
          asked |-> st.asked])

\* quantize once ColorPalette::from_image has returned
quantize_with(img, palette, dither) ==
    IF palette = None THEN None
    ELSE quantize_done(img, palette[1],
             quantize_range(img, palette[1], dither, 0,
                 img.height * img.width - 1,
                 [errors |-> IF dither
                             THEN Repeat(error_new, 2 * (img.width + 2))
                             ELSE <<>>,
                  qdata |-> <<>>, asked |-> <<>>]))

\* quantize after the call of ColorPalette::from_image
quantize_from(img, called, dither) ==
    IF called.panics THEN Panicked
    ELSE Returned(quantize_with(img, called.value, dither))

\* Image::quantize: None, or Some of the palette and the indexed surface
quantize(img, palette_size, dither, rnd) ==
    quantize_from(img, from_image(img, palette_size, rnd), dither)

-----------------------------------------------------------------------------
(* SixelImageHandler::draw: the encoding of an image that is not cached.    *)
(* The bytes are tokens: "\x1bPq" (DCS), "\"1;1;w;h" (RASTER),              *)
(* "#i;2;r;g;b" (PAL), "#c" (COLOR), "!n" (RLE), one data byte (BYTE),      *)
(* "$" (CR), "-" (NL) and "\x1b\\" (ST); numbers are printed in decimal.    *)

SxTok(t, n, v) == [t |-> t, n |-> n, v |-> v]

SxDCS == SxTok("DCS", 0, <<>>)
SxRASTER(width, height) == SxTok("RASTER", 0, <<width, height>>)
SxPAL(index, red, green, blue) == SxTok("PAL", index, <<red, green, blue>>)
SxCOLOR(color) == SxTok("COLOR", color, <<>>)
SxRLE(n) == SxTok("RLE", n, <<>>)
SxBYTE(b) == SxTok("BYTE", b, <<>>)
SxCR == SxTok("CR", 0, <<>>)
SxNL == SxTok("NL", 0, <<>>)
SxST == SxTok("ST", 0, <<>>)

\* ((x as f32 / 2.55).round() * 2.55) as u8; for every x in 0..255 the f32
\* operations give these exact values
scale_channel(x) == ((((200 * x + 255) \div 510) * 255) \div 100)

\* percent that leaves the channel as it is
percent_raw(x) == x

\* (x as f32 / 2.55).round() as u8
percent(x) == (200 * x + 255) \div 510

\* the image with the channels reduced to the range of sixel colors
sixel_dimg(img) ==
    Surface(img.height, img.width,
            [i \in 1..Len(img.data) |->
                RGBA(scale_channel(img.data[i][1]),
                     scale_channel(img.data[i][2]),
                     scale_channel(img.data[i][3]), img.data[i][4])])

\* the palette section
sixel_palette(colors) ==
    [i \in 1..Len(colors) |->
        SxPAL(i - 1, percent(colors[i][1]), percent(colors[i][2]),
              percent(colors[i][3]))]

\* the array sixel of a column: six color indices, 0 where qimg has no row
sixel_at(qimg, row, col) ==
    [i \in 1..6 |->
        LET index == surface_get(qimg, row + i - 1, col)
        IN IF index # None THEN index[1] ELSE 0]

\* sixel_code without the offset 63
sixel_code_nooffset(sixel, color) ==
    LET bit(i) == IF sixel[i] = color THEN 2 ^ (i - 1) ELSE 0
    IN bit(1) + bit(2) + bit(3) + bit(4) + bit(5) + bit(6)

\* code + 63: bit s_index is set where sixel[s_index] is the color
sixel_code(sixel, color) ==
    LET bit(i) == IF sixel[i] = color THEN 2 ^ (i - 1) ELSE 0
    IN bit(1) + bit(2) + bit(3) + bit(4) + bit(5) + bit(6) + 63

\* sixel_lines[color] of the band at row: (column, code) for every column
\* that holds the color, in the order of the columns
sixel_line(qimg, row, color) ==
    LET holds(col) == \E i \in 1..6 : sixel_at(qimg, row, col)[i] = color
        cols == SelectSeq([c \in 1..qimg.width |-> c - 1], holds)
    IN [k \in 1..Len(cols) |->
           <<cols[k], sixel_code(sixel_at(qimg, row, cols[k]), color)>>] \o <<>>

\* the keys of sixel_lines for the band at row
band_colors(qimg, row) ==
    {sixel_at(qimg, row, col)[i] : col \in 0..(qimg.width - 1), i \in 1..6}

\* the number of entries from position i on that repeat the code of entry
\* i in adjacent columns
RECURSIVE count_repeats(_, _, _)
count_repeats(line, i, repeats) ==
    IF i + repeats <= Len(line)
       /\ line[i + repeats][1] = line[i][1] + repeats
       /\ line[i + repeats][2] = line[i][2]
    THEN count_repeats(line, i, repeats + 1)
    ELSE repeats

\* what is written to move shift columns on
write_shift(shift) ==
    IF shift > 3 THEN <<SxRLE(shift), SxBYTE(63)>> ELSE Repeat(SxBYTE(63), shift)

\* write_repeats with the bound of the literal form off by one
write_repeats_ge3(code, repeats) ==
    IF repeats >= 3 THEN <<SxRLE(repeats), SxBYTE(code)>>
    ELSE Repeat(SxBYTE(code), repeats)

\* what is written for the code repeated
write_repeats(code, repeats) ==
    IF repeats > 3 THEN <<SxRLE(repeats), SxBYTE(code)>>
    ELSE Repeat(SxBYTE(code), repeats)

\* the while loop over the codes of a line from entry i on
RECURSIVE render_codes(_, _, _)
render_codes(line, i, offset) ==
    IF i > Len(line) THEN <<>>
    ELSE LET column == line[i][1]
             repeats == count_repeats(line, i, 1)
         IN write_shift(column - offset)
            \o write_repeats(line[i][2], repeats)
            \o render_codes(line, i + repeats, column + repeats)

\* one iteration of the loop over sixel_lines
render_line(qimg, row, color) ==
    <<SxCOLOR(color)>> \o render_codes(sixel_line(qimg, row, color), 1, 0)
    \o <<SxCR>>

\* the orders in which a HashMap may hand out the keys: every order for up
\* to MaxPermuted keys, the ascending and the descending one beyond
MaxPermuted == 3

\* the keys (color indices below bound) from the least to the greatest
Ascending(S, bound) ==
    LET in(x) == x \in S
    IN SelectSeq([i \in 1..bound |-> i - 1], in)

Reversed(s) == [i \in 1..Len(s) |-> s[Len(s) + 1 - i]] \o <<>>

RECURSIVE KeyOrders(_)
KeyOrders(S) ==
    IF S = {} THEN {<<>>}
    ELSE UNION {{<<x>> \o o : o \in KeyOrders(S \ {x})} : x \in S}

Orders(S, bound) ==
    IF Cardinality(S) > MaxPermuted
    THEN {Ascending(S, bound), Reversed(Ascending(S, bound))}
    ELSE KeyOrders(S)

\* the lines of a band written for the colors order[lo..hi], in order
RECURSIVE render_lines(_, _, _, _, _)
render_lines(qimg, row, order, lo, hi) ==
    IF lo > hi THEN <<>>
    ELSE IF lo = hi THEN render_line(qimg, row, order[lo])
    ELSE LET mid == (lo + hi) \div 2
         IN render_lines(qimg, row, order, lo, mid)
            \o render_lines(qimg, row, order, mid + 1, hi)

\* what the loop over the bands can write from the band at row on, for a
\* palette of bound colors
RECURSIVE render_bands(_, _, _)
render_bands(qimg, row, bound) ==
    IF row >= qimg.height THEN {<<>>}
    ELSE {render_lines(qimg, row, order, 1, Len(order)) \o <<SxNL>> \o rest :
             order \in Orders(band_colors(qimg, row), bound),
             rest \in render_bands(qimg, row + 6, bound)}

\* the byte strings sixel_image can be for a palette and an indexed surface
sixel_images(palette, qimg) ==
    {<<SxDCS, SxRASTER(qimg.width, qimg.height)>>
     \o sixel_palette(palette.colors) \o bands \o <<SxST>> :
        bands \in render_bands(qimg, 0, Len(palette.colors))}

-----------------------------------------------------------------------------
(* A fresh SixelImageHandler draws one image.                               *)

\* the colors of the pixels: black, red, green, white
SxColors ==
    <<RGBA(0, 0, 0, 255), RGBA(255, 0, 0, 255), RGBA(0, 255, 0, 255),
      RGBA(255, 255, 255, 255)>>

\* the color (a position in SxColors, from 0) of the pixel at (row, col)
SxPattern(name, row, col) ==
    CASE name = "plain" -> 3
      [] name = "columns" -> col % 2
      [] name = "threes" -> (col \div 3) % 2
      [] name = "fours" -> (col \div 4) % 2
      [] name = "rows" -> row % 2
      [] name = "diagonal" -> (row + col) % 3
      [] name = "right" -> IF col >= 5 THEN 1 ELSE 0
      [] name = "below" -> IF row >= 6 THEN 1 ELSE 2
      [] name = "dot" -> IF col = 2 /\ row % 6 = 1 THEN 1 ELSE 0
      [] name = "sides" -> IF col < 3 \/ col >= 7 THEN 1 ELSE 0

SxPatterns ==
    {"plain", "columns", "threes", "fours", "rows", "diagonal", "right",
     "below", "dot", "sides"}

SxHeights == {1, 6, 7, 12}
SxWidths == {1, 4, 9}

SxImage(name, height, width) ==
    Surface(height, width,
            [p \in 1..(height * width) |->
                SxColors[SxPattern(name, (p - 1) \div width,
                                   (p - 1) % width) + 1]])

\* an image of ManyHeight rows whose pixels each have a color of their own
ManyHeight == 10
ManyWidth == 26

SxManyColors ==
    Surface(ManyHeight, ManyWidth,
            [p \in 1..(ManyHeight * ManyWidth) |->
                RGBA(((p % 16) * 255) \div 15,
                     ((p \div 16) * 255) \div ((ManyHeight * ManyWidth) \div 16 + 1),
                     128, 255)])

SxImages ==
    {SxImage(name, height, width) :
        name \in SxPatterns, height \in SxHeights, width \in SxWidths}
    \cup {SxManyColors, Surface(0, 0, <<>>), Surface(0, 3, <<>>)}

\* draw on a handler that has nothing cached, the write succeeding
SixelDraw ==
    /\ sxOut = <<>>
    /\ LET q == quantize(sixel_dimg(sxIn.img), 256, TRUE, <<0>>).value
       IN IF q = None
          THEN sxOut' = [ret |-> "Ok", written |-> <<>>, colors |-> <<>>,
                         qimg |-> None]
          ELSE \E bytes \in sixel_images(q[1].palette, q[1].qimg) :
                  sxOut' = [ret |-> "Ok", written |-> bytes,
                            colors |-> q[1].palette.colors,
                            qimg |-> Some(q[1].qimg)]
    /\ UNCHANGED sxIn

SixelInit ==
    /\ \E img \in SxImages : sxIn = [img |-> img, bg |-> None]
    /\ sxOut = <<>>
    /\ KittyNew /\ CacheIdle /\ IdIdle /\ OcIdle /\ FnIdle

SixelNext ==
    SixelDraw /\ UNCHANGED <<kittyVars, cacheVars, idVars, ocVars, fnVars>>

SpecSixel == SixelInit /\ [][SixelNext]_vars

-----------------------------------------------------------------------------
(* OcTreePath on its own: the path of a color and the color of a path.      *)

\* path.get(index).unwrap_or(&0), index from 0
path_get(path, index) == IF index < Len(path) THEN path[index + 1] ELSE 0

\* one iteration of the loop of color_from_path: the three u8 shifted left
\* by one, the bit of bits set in each
color_shift(rgb, bits) ==
    <<((2 * rgb[1]) % 256) + ((bits \div 4) % 2),
      ((2 * rgb[2]) % 256) + ((bits \div 2) % 2),
      ((2 * rgb[3]) % 256) + (bits % 2)>>

RECURSIVE color_from(_, _, _)
color_from(path, index, rgb) ==
    IF index = 8 THEN RGBA(rgb[1], rgb[2], rgb[3], 255)
    ELSE color_from(path, index + 1, color_shift(rgb, path_get(path, index)))

\* color_from_path: the color rebuilt from the indices of a path
color_from_path(path) == color_from(path, 0, <<0, 0, 0>>)

\* the values of a channel of the colors whose path is taken
PathChannels == {0, 1, 90, 113, 127, 128, 157, 255}

PathColors == {RGBA(r, g, b, 255) : r \in PathChannels, g \in PathChannels,
                                    b \in PathChannels}

\* OcTreePath::new(color).collect(), and color_from_path of what it collects
PathCollect ==
    /\ fnOut = <<>>
    /\ fnOut' = [path |-> OcTreePath(fnIn.color),
                 color |-> color_from_path(OcTreePath(fnIn.color)),
                 short |-> color_from_path(SubSeq(OcTreePath(fnIn.color), 1, 1))]
    /\ UNCHANGED fnIn

PathInit ==
    /\ \E color \in PathColors : fnIn = [color |-> color]
    /\ fnOut = <<>>
    /\ KittyNew /\ CacheIdle /\ IdIdle /\ OcIdle /\ SixelIdle

PathNext ==
    PathCollect /\ UNCHANGED <<kittyVars, cacheVars, idVars, ocVars, sixelVars>>

SpecPath == PathInit /\ [][PathNext]_vars

-----------------------------------------------------------------------------
(* ColorPalette::new, and find and find_naive on the palette it returns.    *)

\* the colors of the OcTree of ColorList pruned to 8 leaves
PrunedColors == build_palette(prune_until(from_iter(ColorList), 8).tree)

\* the corners of the color cube
CornerColors ==
    <<RGBA(0, 0, 0, 255), RGBA(255, 0, 0, 255), RGBA(0, 255, 0, 255),
      RGBA(0, 0, 255, 255), RGBA(255, 255, 0, 255), RGBA(255, 0, 255, 255),
      RGBA(0, 255, 255, 255), RGBA(255, 255, 255, 255)>>

MaxScattered == 24

\* colors scattered over the cube, no two of them the same
ScatteredColors ==
    [i \in 1..MaxScattered |->
        RGBA((i * 73) % 256, (i * 151) % 256, (i * 199) % 256, 255)] \o <<>>

\* colors that share channels: the ties of the sort and of the distances
SharedColors ==
    <<RGBA(128, 0, 0, 255), RGBA(128, 64, 0, 255), RGBA(128, 64, 64, 255),
      RGBA(64, 64, 64, 255), RGBA(128, 128, 64, 255), RGBA(64, 128, 128, 255),
      RGBA(128, 64, 128, 255), RGBA(192, 64, 64, 255), RGBA(64, 0, 64, 255)>>

\* the vectors handed to ColorPalette::new
PaletteColors ==
    {<<>>, <<RGBA(10, 20, 30, 255)>>, CornerColors, ScatteredColors,
     SharedColors, PrunedColors,
     <<RGBA(0, 0, 0, 255), RGBA(255, 255, 255, 255), RGBA(0, 0, 0, 255)>>}

ProbeChannels == {0, 64, 96, 127, 128, 255}

ProbeColors == {RGBA(r, g, b, 255) : r \in ProbeChannels, g \in ProbeChannels,
                                     b \in ProbeChannels}

\* find and find_naive for the probe, and find for every color of the palette
palette_results(palette, probe) ==
    IF palette = None
    THEN [palette |-> None, found |-> None, naive |-> None, own |-> <<>>]
    ELSE [palette |-> palette,
          found |-> Some(palette_find(palette[1], probe)),
          naive |-> Some(find_naive(palette[1], probe)),
          own |-> [i \in 1..Len(palette[1].colors) |->
                      palette_find(palette[1], palette[1].colors[i])] \o <<>>]

PaletteFind ==
    /\ fnOut = <<>>
    /\ fnOut' = palette_results(palette_new(fnIn.colors), fnIn.probe)
    /\ UNCHANGED fnIn

PaletteInit ==
    /\ \E colors \in PaletteColors, probe \in ProbeColors :
          fnIn = [colors |-> colors, probe |-> probe]
    /\ fnOut = <<>>
    /\ KittyNew /\ CacheIdle /\ IdIdle /\ OcIdle /\ SixelIdle

PaletteNext ==
    PaletteFind /\ UNCHANGED <<kittyVars, cacheVars, idVars, ocVars, sixelVars>>

SpecPalette == PaletteInit /\ [][PaletteNext]_vars

-----------------------------------------------------------------------------
(* ColorPalette::from_image and Image::quantize on their own.               *)

\* an image of one color
Uniform(height, width, color) ==
    Surface(height, width, Repeat(color, height * width))

\* 18 colors near white, no two of them the same: pruned to fewer colors,
\* the colors of the palette are darker or lighter than the pixels
NearWhite ==
    Surface(3, 6, [p \in 1..18 |-> RGBA(255 - (p % 5), 255 - (p \div 4),
                                        250 + (p % 6), 255)] \o <<>>)

\* 18 colors, a dark one next to a light one
Checkered ==
    Surface(3, 6, [p \in 1..18 |->
                      IF p % 2 = 0 THEN RGBA(p, 2 * p, 3 * p, 255)
                      ELSE RGBA(255 - p, 255 - 2 * p, 255 - 3 * p, 255)]
                  \o <<>>)

SampledHeight == 8
SampledWidth == 25

\* an image of 200 pixels or more, which from_image samples when
\* palette_size is 1: the colors of ColorList over and over
Sampled ==
    Surface(SampledHeight, SampledWidth,
            [p \in 1..(SampledHeight * SampledWidth) |->
                ColorList[(p % Len(ColorList)) + 1]] \o <<>>)

QzImages ==
    {Surface(0, 0, <<>>), Surface(0, 3, <<>>),
     Uniform(4, 4, RGBA(10, 20, 30, 255)),
     Uniform(2, 2, RGBA(255, 0, 0, 255)),
     Surface(1, Len(ColorList), ColorList),
     Surface(2, 4, SubSeq(CornerColors, 1, 8)),
     Surface(3, 3, SubSeq(SharedColors, 1, 9)),
     NearWhite, Checkered, Sampled}

QzSizes == {0, 1, 8, 9, 256}

\* what Rnd::next_u32 gives
QzRnd == {<<0>>, <<1>>, <<3, 0, 1>>}

QzBackgrounds == {None, Some(RGBA(255, 255, 255, 255))}

\* what ColorPalette::from_image and Image::quantize give, quantize from
\* what its call of from_image gave
quantize_results(img, called, dither) ==
    [palette |-> called, quantized |-> quantize_from(img, called, dither)]

QuantizeCall ==
    /\ fnOut = <<>>
    /\ fnOut' = quantize_results(fnIn.img,
                    from_image(fnIn.img, fnIn.palette_size, fnIn.rnd),
                    fnIn.dither)
    /\ UNCHANGED fnIn

QuantizeInit ==
    /\ \E img \in QzImages, palette_size \in QzSizes, dither \in BOOLEAN,
          bg \in QzBackgrounds, rnd \in QzRnd :
          fnIn = [img |-> img, palette_size |-> palette_size,
                  dither |-> dither, bg |-> bg, rnd |-> rnd]
    /\ fnOut = <<>>
    /\ KittyNew /\ CacheIdle /\ IdIdle /\ OcIdle /\ SixelIdle

QuantizeNext ==
    QuantizeCall /\ UNCHANGED <<kittyVars, cacheVars, idVars, ocVars, sixelVars>>

SpecQuantize == QuantizeInit /\ [][QuantizeNext]_vars

-----------------------------------------------------------------------------
(* RGBA::from_str_opt (src/src/color.rs). A string is the sequence of its   *)
(* characters, all of them ASCII; a color is Some(RGBA) or None.            *)

HexLower ==
    <<"0", "1", "2", "3", "4", "5", "6", "7", "8", "9",
      "a", "b", "c", "d", "e", "f">>

HexUpper ==
    <<"0", "1", "2", "3", "4", "5", "6", "7", "8", "9",
      "A", "B", "C", "D", "E", "F">>

\* char::to_digit(16)
to_digit(c) ==
    IF \E i \in 1..16 : HexLower[i] = c
    THEN Some((CHOOSE i \in 1..16 : HexLower[i] = c) - 1)
    ELSE IF \E i \in 1..16 : HexUpper[i] = c
    THEN Some((CHOOSE i \in 1..16 : HexUpper[i] = c) - 1)
    ELSE None

\* the number the hex digits digits[1..n] write
RECURSIVE radix_value(_, _)
radix_value(digits, n) ==
    IF n = 0 THEN 0
    ELSE 16 * radix_value(digits, n - 1) + to_digit(digits[n])[1]

\* the digits of from_str_radix: the string without a leading "+"
radix_digits(string) ==
    IF string # <<>> /\ string[1] = "+" THEN Tail(string) ELSE string

\* usize::from_str_radix(string, 16).ok() on its digits
radix_parsed(digits) ==
    IF digits = <<>> THEN None
    ELSE IF \E i \in 1..Len(digits) : to_digit(digits[i]) = None THEN None
    ELSE Some(radix_value(digits, Len(digits)))

\* usize::from_str_radix(string, 16).ok(): an optional "+" and then one hex
\* digit or more (the strings of the model are too short to overflow)
from_str_radix(string) == radix_parsed(radix_digits(string))

\* crate::common::clamp
clamp(value, min, max) ==
    IF value < min THEN min ELSE IF value > max THEN max ELSE value

\* the match on string.len() of parse_component
component_scaled(value, len) ==
    CASE len = 4 -> Some(clamp(value \div 256, 0, 255))
      [] len = 3 -> Some(clamp(value \div 16, 0, 255))
      [] len = 2 -> Some(clamp(value, 0, 255))
      [] len = 1 -> Some(clamp(value * 17, 0, 255))
      [] OTHER -> None

component_of(parsed, len) ==
    IF parsed = None THEN None ELSE component_scaled(parsed[1], len)

\* parse_component
parse_component(string) == component_of(from_str_radix(string), Len(string))

\* str::split(sep): the parts of string from position i on, part being
\* what was read of the first of them
RECURSIVE split_from(_, _, _, _)
split_from(string, sep, i, part) ==
    IF i > Len(string) THEN <<part>>
    ELSE IF string[i] = sep
    THEN <<part>> \o split_from(string, sep, i + 1, <<>>)
    ELSE split_from(string, sep, i + 1, Append(part, string[i]))

split(string, sep) == split_from(string, sep, 1, <<>>)

\* crate::decoder::hex_decode: the bytes that the pairs of hex digits
\* write, up to the first pair that is not two hex digits
RECURSIVE hex_decode(_)
hex_decode(bytes) ==
    IF Len(bytes) < 2 THEN <<>>
    ELSE IF to_digit(bytes[1]) = None \/ to_digit(bytes[2]) = None THEN <<>>
    ELSE <<16 * to_digit(bytes[1])[1] + to_digit(bytes[2])[1]>>
         \o hex_decode(SubSeq(bytes, 3, Len(bytes)))

\* str::trim_matches('"')
RECURSIVE trim_start(_)
trim_start(string) ==
    IF string # <<>> /\ string[1] = "\"" THEN trim_start(Tail(string))
    ELSE string

RECURSIVE trim_end(_)
trim_end(string) ==
    IF string # <<>> /\ string[Len(string)] = "\""
    THEN trim_end(SubSeq(string, 1, Len(string) - 1))
    ELSE string

trim_matches(string) == trim_end(trim_start(string))

\* str::strip_prefix("rgb:")
strip_prefix(string) ==
    IF Len(string) >= 4 /\ SubSeq(string, 1, 4) = <<"r", "g", "b", ":">>
    THEN Some(SubSeq(string, 5, Len(string)))
    ELSE None

\* the branch #RRGGBB(AA): hex.next()? three times, a fourth for 9 bytes
from_hex(hex, len) ==
    IF Len(hex) < 3 THEN None
    ELSE IF len # 9 THEN Some(RGBA(hex[1], hex[2], hex[3], 255))
    ELSE IF Len(hex) < 4 THEN None
    ELSE Some(RGBA(hex[1], hex[2], hex[3], hex[4]))

from_components(red, green, blue) ==
    IF red = None \/ green = None \/ blue = None THEN None
    ELSE Some(RGBA(red[1], green[1], blue[1], 255))

\* the branch rgb:r/g/b: iter.next()? three times, what follows is not read
from_parts(parts) ==
    IF Len(parts) < 3 THEN None
    ELSE from_components(parse_component(parts[1]), parse_component(parts[2]),
                         parse_component(parts[3]))

from_stripped(stripped) ==
    IF stripped = None THEN None ELSE from_parts(split(stripped[1], "/"))

from_trimmed(rgba) ==
    IF rgba # <<>> /\ rgba[1] = "#" /\ Len(rgba) \in {7, 9}
    THEN from_hex(hex_decode(Tail(rgba)), Len(rgba))
    ELSE from_stripped(strip_prefix(rgba))

\* RGBA::from_str_opt
from_str_opt(rgba) == from_trimmed(trim_matches(rgba))

\* <RGBA as FromStr>::from_str
rgba_from_str(string) ==
    IF from_str_opt(string) = None
    THEN [ok |-> FALSE, color |-> None]
    ELSE [ok |-> TRUE, color |-> from_str_opt(string)]

-----------------------------------------------------------------------------
(* The strings that are parsed.                                             *)

\* two characters of a string that starts with "#"
HexPairs ==
    {<<"d", "3">>, <<"8", "6">>, <<"9", "b">>, <<"0", "0">>,
     <<"F", "f">>, <<"g", "0">>, <<"8", "0">>}

\* strings of "#" and two to five pairs of characters
HashStrings ==
    {<<"#">> \o a \o b : a, b \in HexPairs}
    \cup {<<"#">> \o a \o b \o c : a, b, c \in HexPairs}
    \cup {<<"#">> \o a \o b \o c \o d : a, b, c, d \in HexPairs}
    \cup {<<"#">> \o a \o a \o a \o b \o b : a, b \in HexPairs}

\* what stands between the "/" of a string that starts with "rgb:"
Components ==
    {<<>>, <<"0">>, <<"f">>, <<"8", "6">>,
     <<"9", "b">>, <<"d", "3">>, <<"d", "3", "d", "3">>, <<"f", "f", "f">>,
     <<"F", "f", "F">>, <<"1", "2", "3", "4", "5">>, <<"+", "f">>, <<"+", "f", "f", "f">>,
     <<"-", "1">>, <<"g">>, <<"+">>}

FewComponents ==
    {<<"f">>, <<"8", "6">>, <<"d", "3", "d", "3">>}

\* strings of "rgb:" and two to four components
RgbStrings ==
    {<<"r", "g", "b", ":">> \o a \o <<"/">> \o b : a, b \in Components}
    \cup {<<"r", "g", "b", ":">> \o a \o <<"/">> \o b \o <<"/">> \o c :
              a, b, c \in Components}
    \cup {<<"r", "g", "b", ":">> \o a \o <<"/">> \o b \o <<"/">> \o c
             \o <<"/">> \o d :
              a, b, c \in FewComponents, d \in Components}

\* strings between quotation marks
QuotedStrings ==
    {<<"\"">> \o <<"#">> \o a \o a \o b \o <<"\"">> : a, b \in HexPairs}
    \cup {<<"\"">> \o <<"r", "g", "b", ":">> \o a \o <<"/">> \o a
             \o <<"/">> \o b :
              a, b \in Components}

OtherStrings ==
    {<<>>, <<"r", "e", "d">>, <<"#">>,
     <<"r", "g", "b">>, <<"r", "g", "b", ":">>, <<"R", "G", "B", ":", "0", "/", "0", "/", "0">>,
     <<"r", "g", "b", ":", "0", "/", "0", "/", "0", " ">>, <<"#", "d", "3", "8", "6", "9">>, <<"d", "3", "8", "6", "9", "b">>,
     <<"\"">>, <<"r", "g", "b", ":", "/", "0", "/", "0", "/", "0">>}

ColorStrings == HashStrings \cup RgbStrings \cup QuotedStrings \cup OtherStrings

\* string.parse::<RGBA>()
ParseColor ==
    /\ fnOut = <<>>
    /\ fnOut' = rgba_from_str(fnIn.string)
    /\ UNCHANGED fnIn

ColorInit ==
    /\ \E string \in ColorStrings : fnIn = [string |-> string]
    /\ fnOut = <<>>
    /\ KittyNew /\ CacheIdle /\ IdIdle /\ OcIdle /\ SixelIdle

ColorNext ==
    ParseColor /\ UNCHANGED <<kittyVars, cacheVars, idVars, ocVars, sixelVars>>

SpecColor == ColorInit /\ [][ColorNext]_vars

-----------------------------------------------------------------------------
(* Face (src/src/face.rs): Display and FromStr. A Face has fg and bg, each  *)
(* None or Some(RGBA), and attrs, the bits of its FaceAttrs.                *)

Face(fg, bg, attrs) == [fg |-> fg, bg |-> bg, attrs |-> attrs]

\* the array of FaceAttrs::names: the flag and the name of each attribute
FaceNames ==
    <<[flag |-> 1, name |-> <<"b", "o", "l", "d">>],
      [flag |-> 2, name |-> <<"i", "t", "a", "l", "i", "c">>],
      [flag |-> 4, name |-> <<"u", "n", "d", "e", "r", "l", "i", "n", "e">>],
      [flag |-> 8, name |-> <<"b", "l", "i", "n", "k">>],
      [flag |-> 16, name |-> <<"r", "e", "v", "e", "r", "s", "e">>],
      [flag |-> 32, name |-> <<"s", "t", "r", "i", "k", "e">>]>>

\* FaceAttrs::contains, for a flag of one bit
contains(bits, flag) == (bits \div flag) % 2 = 1

\* self.attrs |= flag, for a flag of one bit
bitor(bits, flag) == IF contains(bits, flag) THEN bits ELSE bits + flag

\* the format {:x}: the hex digits of a byte without padding
fmt_x(byte) ==
    IF byte < 16 THEN <<HexLower[byte + 1]>>
    ELSE <<HexLower[(byte \div 16) + 1], HexLower[(byte % 16) + 1]>>

\* the format {:02x}: the two hex digits of a byte
fmt_02x(byte) == <<HexLower[(byte \div 16) + 1], HexLower[(byte % 16) + 1]>>

\* <RGBA as Display>::fmt
rgba_display(color) ==
    <<"#">> \o fmt_02x(color[1]) \o fmt_02x(color[2]) \o fmt_02x(color[3])
    \o (IF color[4] # 255 THEN fmt_02x(color[4]) ELSE <<>>)

\* what the loop over self.attrs.names() writes from names[index] on
RECURSIVE names_display(_, _)
names_display(bits, index) ==
    IF index > Len(FaceNames) THEN <<>>
    ELSE (IF contains(bits, FaceNames[index].flag)
          THEN FaceNames[index].name \o <<",">>
          ELSE <<>>)
         \o names_display(bits, index + 1)

\* <Face as Display>::fmt
face_display(face) ==
    (IF face.fg # None
     THEN <<"f", "g", "=">> \o rgba_display(face.fg[1]) \o <<",">>
     ELSE <<>>)
    \o (IF face.bg # None
        THEN <<"b", "g", "=">> \o rgba_display(face.bg[1]) \o <<",">>
        ELSE <<>>)
    \o names_display(face.attrs, 1)

UpperCase ==
    <<"A", "B", "C", "D", "E", "F", "G", "H", "I", "J", "K", "L", "M",
      "N", "O", "P", "Q", "R", "S", "T", "U", "V", "W", "X", "Y", "Z">>

LowerCase ==
    <<"a", "b", "c", "d", "e", "f", "g", "h", "i", "j", "k", "l", "m",
      "n", "o", "p", "q", "r", "s", "t", "u", "v", "w", "x", "y", "z">>

lower(c) ==
    IF \E i \in 1..26 : UpperCase[i] = c
    THEN LowerCase[CHOOSE i \in 1..26 : UpperCase[i] = c]
    ELSE c

\* str::to_lowercase
to_lowercase(string) == [i \in 1..Len(string) |-> lower(string[i])] \o <<>>

\* str::trim, the white space being " "
RECURSIVE trim_ws_start(_)
trim_ws_start(string) ==
    IF string # <<>> /\ string[1] = " " THEN trim_ws_start(Tail(string))
    ELSE string

RECURSIVE trim_ws_end(_)
trim_ws_end(string) ==
    IF string # <<>> /\ string[Len(string)] = " "
    THEN trim_ws_end(SubSeq(string, 1, Len(string) - 1))
    ELSE string

trim(string) == trim_ws_end(trim_ws_start(string))

\* the position of the first sep in string, 0 without one
first_at(string, sep) ==
    IF \E i \in 1..Len(string) : string[i] = sep
    THEN CHOOSE i \in 1..Len(string) :
             string[i] = sep /\ \A j \in 1..(i - 1) : string[j] # sep
    ELSE 0

\* attrs.splitn(2, '='): the first item, and the second or its default ""
splitn_first(string, at) ==
    IF at = 0 THEN string ELSE SubSeq(string, 1, at - 1)

splitn_second(string, at) ==
    IF at = 0 THEN <<>> ELSE SubSeq(string, at + 1, Len(string))

face_ok(face) == [ok |-> TRUE, face |-> Some(face)]
face_err == [ok |-> FALSE, face |-> None]

\* face.fg = Some(value.parse()?) and face.bg = Some(value.parse()?)
face_fg(face, parsed) ==
    IF parsed.ok THEN face_ok([face EXCEPT !.fg = parsed.color]) ELSE face_err

face_bg(face, parsed) ==
    IF parsed.ok THEN face_ok([face EXCEPT !.bg = parsed.color]) ELSE face_err

\* the name of key among the names of the attributes, 0 when it is none
name_at(key) ==
    IF \E i \in 1..Len(FaceNames) : FaceNames[i].name = key
    THEN CHOOSE i \in 1..Len(FaceNames) : FaceNames[i].name = key
    ELSE 0

\* the match on key.as_str()
face_match(face, key, value) ==
    IF key = <<"f", "g">> THEN face_fg(face, rgba_from_str(value))
    ELSE IF key = <<"b", "g">> THEN face_bg(face, rgba_from_str(value))
    ELSE IF name_at(key) # 0
    THEN face_ok([face EXCEPT
                     !.attrs = bitor(face.attrs, FaceNames[name_at(key)].flag)])
    ELSE IF key = <<>> THEN face_ok(face)
    ELSE face_err

\* the closure of the try_fold
face_fold(face, attrs, at) ==
    face_match(face, to_lowercase(trim(splitn_first(attrs, at))),
               trim(splitn_second(attrs, at)))

\* the try_fold from parts[index] on: it ends at the first error
RECURSIVE face_try_fold(_, _, _)
face_try_fold(acc, parts, index) ==
    IF ~acc.ok \/ index > Len(parts) THEN acc
    ELSE face_try_fold(face_fold(acc.face[1], parts[index],
                                 first_at(parts[index], "=")),
                       parts, index + 1)

\* <Face as FromStr>::from_str
face_from_str(string) ==
    face_try_fold(face_ok(Face(None, None, 0)), split(string, ","), 1)

\* the colors of the faces: opaque or not, with channels below 16
FaceColors ==
    {RGBA(152, 151, 26, 255), RGBA(189, 174, 147, 255), RGBA(0, 0, 0, 255),
     RGBA(5, 16, 255, 255), RGBA(255, 255, 255, 0), RGBA(1, 2, 3, 4),
     RGBA(171, 205, 239, 128), RGBA(10, 11, 12, 254)}

FaceOptions == {None} \cup {Some(color) : color \in FaceColors}

Faces ==
    {Face(fg, bg, attrs) : fg \in FaceOptions, bg \in FaceOptions,
                           attrs \in 0..63}

\* strings that are parsed without having been written by Display
FaceStrings ==
    {<<"f", "g", "=", "#", "9", "8", "9", "7", "1", "a", ",", "b", "g", "=", "#", "b", "d", "a", "e", "9">>
      \o <<"3", ",", " ", "b", "o", "l", "d", " ", ",", "u", "n", "d", "e", "r", "l", "i", "n", "e">>,
     <<"F", "G", "=", "#", "9", "8", "9", "7", "1", "a", ",", ",", "B", "o", "l", "d">>,
     <<"f", "g", "=", "r", "g", "b", ":", "9", "8", "/", "9", "7", "/", "1", "a", ",", "s", "t", "r", "i">>
      \o <<"k", "e", "=", "o", "n">>,
     <<"f", "g", "=", "#", "9", "8", "9", "7", "1">>,
     <<"b", "o", "g", "u", "s">>,
     <<"b", "o", "l", "d", ",", "f", "g">>,
     <<"b", "l", "i", "n", "k", ",", " ", "b", "g", " ", "=", " ", "#", "0", "0", "0", "0", "0", "0", "8">>
      \o <<"0", " ", ",", "r", "e", "v", "e", "r", "s", "e", ",", "i", "t", "a", "l", "i", "c">>}

\* face.to_string().parse::<Face>()
FaceToStringParse ==
    /\ fnOut = <<>>
    /\ "face" \in DOMAIN fnIn
    /\ fnOut' = [string |-> face_display(fnIn.face),
                 parsed |-> face_from_str(face_display(fnIn.face))]
    /\ UNCHANGED fnIn

\* string.parse::<Face>()
FaceParse ==
    /\ fnOut = <<>>
    /\ "string" \in DOMAIN fnIn
    /\ fnOut' = [string |-> fnIn.string, parsed |-> face_from_str(fnIn.string)]
    /\ UNCHANGED fnIn

FaceInit ==
    /\ \/ \E face \in Faces : fnIn = [face |-> face]
       \/ \E string \in FaceStrings : fnIn = [string |-> string]
    /\ fnOut = <<>>
    /\ KittyNew /\ CacheIdle /\ IdIdle /\ OcIdle /\ SixelIdle

FaceNext ==
    /\ FaceToStringParse \/ FaceParse
    /\ UNCHANGED <<kittyVars, cacheVars, idVars, ocVars, sixelVars>>

SpecFace == FaceInit /\ [][FaceNext]_vars

-----------------------------------------------------------------------------
(* Fresh SixelImageHandlers with the same background draw the same image,  *)
(* each into a sink of its own.                                             *)

MaxHandlers == 2

PairImages ==
    {SxImage(name, height, 4) :
        name \in {"plain", "columns", "rows", "diagonal"}, height \in {6, 12}}

\* what draw of a fresh handler can write for img
SixelDrawBytes(img) ==
    LET q == quantize(sixel_dimg(img), 256, TRUE, <<0>>).value
    IN IF q = None THEN {<<>>} ELSE sixel_images(q[1].palette, q[1].qimg)

\* the next fresh handler draws the image
SixelDrawFresh ==
    /\ Len(sxOut) < MaxHandlers
    /\ \E bytes \in SixelDrawBytes(sxIn.img) :
          sxOut' = Append(sxOut, [ret |-> "Ok", written |-> bytes])
    /\ UNCHANGED sxIn

SixelPairInit ==
    /\ \E img \in PairImages : sxIn = [img |-> img, bg |-> None]
    /\ sxOut = <<>>
    /\ KittyNew /\ CacheIdle /\ IdIdle /\ OcIdle /\ FnIdle

SixelPairNext ==
    SixelDrawFresh /\ UNCHANGED <<kittyVars, cacheVars, idVars, ocVars, fnVars>>

SpecSixelPair == SixelPairInit /\ [][SixelPairNext]_vars

-----------------------------------------------------------------------------
(* UnixTerminal: poll routes the events of the terminal to the image        *)
(* handler and to events_queue.                                             *)
(* hkind and imgs are the image handler, fnIn the fields the terminal       *)
(* keeps (size, events_queue), log the calls of handle, fnOut what the      *)
(* calls of poll returned and what the decoder and the queue were given.    *)

MaxPolls == 2
MaxDecoded == 2

SizeEvent(term_size) == [kind |-> "Size", size |-> term_size]
ResizeEvent(term_size) == [kind |-> "Resize", size |-> term_size]
WakeEvent == [kind |-> "Wake"]
\* the ambiguous event the decoder holds back, the Escape key
EscapeEvent == [kind |-> "Key", name |-> "Esc"]

\* TerminalSize: the size the escape sequence reports, and the size ioctl
\* reports
EscapeSize == "size of escape"
IoctlSize == "size of ioctl"

\* the events decoder.decode returns
DecodedEvents ==
    {KittyImageEvent(W(5), None), KittyImageEvent(W(5), Some("bad data")),
     [kind |-> "Key"], SizeEvent(EscapeSize)}

\* image_handler.handle(&event): what it returns and the imgs it leaves
handle_ret(kind, event) ==
    IF kind = "kitty" THEN KittyHandleFilter(event) ELSE FALSE

handle_imgs(kind, m, event) ==
    IF kind = "kitty" /\ event.kind = "KittyImage" /\ event.error # None
    THEN Remove(m, event.id)
    ELSE m

\* events_queue.push_back(event) on every path
push_unless_always(queue, event, handled) == Append(queue, event)

\* if !handled { events_queue.push_back(event) }
push_unless(queue, event, handled) ==
    IF handled THEN queue ELSE Append(queue, event)

\* the Size event of the escape sequence: a terminal that keeps its size
\* takes it and queues a Resize
on_size(term, event) ==
    IF event.kind = "Size" /\ term.size # None
    THEN [term EXCEPT !.size = Some(event.size),
                      !.events_queue = Append(@, ResizeEvent(event.size))]
    ELSE term

\* the body of the loop over the decoded events for one event
on_event(term, event, handled) ==
    [term EXCEPT !.imgs = handle_imgs(hkind, @, event),
                 !.handled = Append(@, [event |-> event, ret |-> handled]),
                 !.events_queue = push_unless(@, event, handled)]

\* while let Some(event) = self.decoder.decode(..)? { .. } from events[i] on
RECURSIVE decode_loop(_, _, _)
decode_loop(term, events, i) ==
    IF i > Len(events) THEN term
    ELSE decode_loop(on_event(on_size(term, events[i]), events[i],
                              handle_ret(hkind, events[i])),
                     events, i + 1)

\* the signals and the waker of one pass of the loop of poll
on_other(term, other) ==
    CASE other = "SIGWINCH" /\ term.size = None ->
             [term EXCEPT !.events_queue = Append(@, ResizeEvent(IoctlSize))]
      [] other = "wake" -> [term EXCEPT !.events_queue = Append(@, WakeEvent)]
      [] OTHER -> term

\* the pending input of one pass: the events decoded and then the event
\* the decoder holds back
on_input(term, read) ==
    IF read.kind # "events" THEN term
    ELSE LET t == decode_loop(term, read.events, 1)
         IN IF read.end = "take"
            THEN [t EXCEPT !.events_queue = Append(@, EscapeEvent)]
            ELSE t

\* the terminal after one pass of the loop
pass(term, other, read) ==
    IF other = "SIGTERM" THEN term ELSE on_input(on_other(term, other), read)

\* what poll returns after the pass
poll_ret(term, select, other, read) ==
    IF select = "EINTR" THEN [ret |-> "Ok", event |-> None]
    ELSE IF other = "SIGTERM" \/ read.kind = "closed"
    THEN [ret |-> "Quit"]
    ELSE IF read.kind = "events" /\ read.end = "err"
    THEN [ret |-> "Err"]
    ELSE IF term.events_queue = <<>> THEN [ret |-> "Ok", event |-> None]
    ELSE [ret |-> "Ok", event |-> Some(Head(term.events_queue))]

\* events_queue.pop_front(), taken when poll returns Ok past the loop
pop_front(queue, ret) ==
    IF ret.ret = "Ok" /\ ret.event # None THEN Tail(queue) ELSE queue

UnixTerminal(term) == [size |-> term.size, events_queue |-> term.events_queue]

\* the pass poll makes: none when events are queued and nothing is left
\* to write, one pass otherwise (the timeout ends the loop after it)
polled_term(pending, select, other, read) ==
    LET term == [size |-> fnIn.size, events_queue |-> fnIn.events_queue,
                 imgs |-> imgs, handled |-> <<>>]
    IN IF (pending \/ fnIn.events_queue = <<>>) /\ select # "EINTR"
       THEN pass(term, other, read)
       ELSE term

PollDone(term, ret, read) ==
    /\ imgs' = term.imgs
    /\ log' = log \o [i \in 1..Len(term.handled) |->
                         [op |-> "handle", event |-> term.handled[i].event,
                          ret |-> term.handled[i].ret, at |-> Len(out)]]
    /\ fnIn' = [size |-> term.size,
                events_queue |-> pop_front(term.events_queue, ret)]
    /\ fnOut' = [polled |-> Append(fnOut.polled, ret),
                 decoded |-> fnOut.decoded
                     \o (IF Len(term.handled) > 0 THEN read.events ELSE <<>>),
                 queued |-> fnOut.queued
                     \o SubSeq(term.events_queue, Len(fnIn.events_queue) + 1,
                               Len(term.events_queue))]
    /\ UNCHANGED out

\* poll(timeout) with a timeout that allows one pass of the loop
Poll(pending, select, other, read) ==
    /\ Len(fnOut.polled) < MaxPolls
    /\ PollDone(polled_term(pending, select, other, read),
                poll_ret(polled_term(pending, select, other, read),
                         IF pending \/ fnIn.events_queue = <<>>
                         THEN select ELSE "ready",
                         IF pending \/ fnIn.events_queue = <<>>
                         THEN other ELSE "none",
                         IF pending \/ fnIn.events_queue = <<>>
                         THEN read ELSE [kind |-> "none"]),
                read)

\* the events of the bytes of one read, in the order the decoder returns
\* them: the first events, up to MaxDecoded, of one of these runs
DecodedRuns ==
    {<<KittyImageEvent(W(5), None), KittyImageEvent(W(5), Some("bad data")),
       [kind |-> "Key"], SizeEvent(EscapeSize)>>,
     <<[kind |-> "Key"], SizeEvent(EscapeSize),
       KittyImageEvent(W(5), None), KittyImageEvent(W(5), Some("bad data"))>>,
     <<KittyImageEvent(W(5), Some("bad data")), KittyImageEvent(W(5), None),
       SizeEvent(EscapeSize), [kind |-> "Key"]>>}

Decoded ==
    {SubSeq(run, 1, n) : run \in DecodedRuns, n \in 0..MaxDecoded}

EventsRead(events, end) == [kind |-> "events", events |-> events, end |-> end]

\* what one pass of the loop of poll finds: the outcome of select, the
\* signal or the waker, and the input of the terminal
Pass(select, other, read) == [select |-> select, other |-> other, read |-> read]

Passes ==
    {Pass("EINTR", "none", [kind |-> "none"]),
     Pass("ready", "SIGTERM", [kind |-> "none"]),
     Pass("ready", "none", [kind |-> "none"]),
     Pass("ready", "none", [kind |-> "closed"])}
    \cup {Pass("ready", "none", EventsRead(events, end)) :
              events \in Decoded, end \in {"none", "take"}}
    \cup {Pass("ready", "none", EventsRead(events, "err")) :
              events \in {e \in Decoded : Len(e) = 1}}
    \cup {Pass("ready", other, read) :
              other \in {"wake", "SIGWINCH"},
              read \in {[kind |-> "none"],
                        EventsRead(<<KittyImageEvent(W(5), None)>>, "none")}}

PollKinds == {"kitty", "dummy"}

PollInit ==
    /\ \E kind \in PollKinds : CacheNew(kind)
    /\ KittyNew /\ IdIdle /\ OcIdle /\ SixelIdle
    /\ \E term_size \in {None, Some(IoctlSize)} :
          fnIn = [size |-> term_size, events_queue |-> <<>>]
    /\ fnOut = [polled |-> <<>>, decoded |-> <<>>, queued |-> <<>>]

PollNext ==
    /\ \E pending \in BOOLEAN, p \in Passes :
          Poll(pending, p.select, p.other, p.read)
    /\ UNCHANGED <<cacheVars, idVars, ocVars, sixelVars>>

SpecPoll == PollInit /\ [][PollNext]_vars

-----------------------------------------------------------------------------
(* Reading the sink back: frames, their control data and payload.           *)

Min(S) == CHOOSE x \in S : \A y \in S : x <= y

\* the first position from j on that holds "\x1b_G", or Len(o) + 1
RECURSIVE NextStart(_, _)
NextStart(o, j) ==
    IF j > Len(o) \/ o[j].t = "APC" THEN j ELSE NextStart(o, j + 1)

\* o from position i on, cut before every "\x1b_G"
RECURSIVE SplitFrom(_, _)
SplitFrom(o, i) ==
    IF i > Len(o) THEN <<>>
    ELSE LET n == NextStart(o, i + 1)
         IN <<SubSeq(o, i, n - 1)>> \o SplitFrom(o, n)

SplitFrames(o) == SplitFrom(o, 1)

\* what a draw or erase call wrote
Written(e) == SubSeq(out, e.from + 1, e.to)
FramesOf(e) == SplitFrames(Written(e))

IsKV(t) == t.t = "KV"
IsData(t) == t.t = "DATA"

HasS(f, k, s) == \E i \in 1..Len(f) : IsKV(f[i]) /\ f[i].k = k /\ f[i].s = s
HasN(f, k, n) == \E i \in 1..Len(f) : IsKV(f[i]) /\ f[i].k = k /\ f[i].n = n
KeysOf(f) == {f[i].k : i \in {j \in 1..Len(f) : IsKV(f[j])}}
DataOf(f) == SelectSeq(f, IsData)

\* the first position from j on that holds neither key=value nor ","
RECURSIVE CtlStop(_, _)
CtlStop(f, j) ==
    IF j > Len(f) \/ f[j].t \notin {"KV", "COMMA"} THEN j ELSE CtlStop(f, j + 1)

\* the number of tokens of the control data that follows "\x1b_G"
CtlLen(f) == CtlStop(f, 2) - 2

\* key=value(,key=value)*
CtlForm(c) ==
    /\ Len(c) % 2 = 1
    /\ \A i \in 1..Len(c) : c[i].t = (IF i % 2 = 1 THEN "KV" ELSE "COMMA")

KittyKeys == {"a", "f", "o", "i", "p", "v", "s", "m", "d"}

\* ESC _ G, control data, then rest, then ESC \
FrameParts(f) ==
    [ctl |-> SubSeq(f, 2, 1 + CtlLen(f)),
     rest |-> SubSeq(f, 2 + CtlLen(f), Len(f) - 1)]

\* ESC _ G, control data with the known keys, rest, ESC \
FrameShell(f, parts) ==
    /\ Len(f) >= 3
    /\ f[1] = APC
    /\ f[Len(f)] = ST
    /\ CtlForm(parts.ctl)
    /\ KeysOf(parts.ctl) \subseteq KittyKeys

\* ESC _ G <control data> ; <payload>? ESC \
FrameWithSemi(f) ==
    LET parts == FrameParts(f)
        rest == parts.rest
    IN /\ FrameShell(f, parts)
       /\ \/ rest = <<SEMI>>
          \/ Len(rest) = 2 /\ rest[1] = SEMI /\ IsData(rest[2])

\* ESC _ G <control data> ESC \
FrameWithoutSemi(f) ==
    LET parts == FrameParts(f)
    IN FrameShell(f, parts) /\ parts.rest = <<>>

Calls(op) == {i \in 1..Len(log) : log[i].op = op}

KVsOf(f) == SelectSeq(f, IsKV)

IsTransferHead(f) == HasS(f, "a", "t")
IsPlacement(f) == HasS(f, "a", "p")

\* the payload slice <<offset, length>> carried by a frame with one DATA token
SliceOf(f) == DataOf(f)[1].d

\* fs[a..b] transfers the whole payload of img under image id id: the head
\* frame with all attributes, then continuation frames with m alone, m=1 on
\* all but the last, the slices in order and covering the payload
WholeTransfer(fs, a, b, img, id) ==
    /\ a <= b
    /\ \A k \in a..b :
          /\ FrameWithSemi(fs[k])
          /\ Len(DataOf(fs[k])) = 1
          /\ DataOf(fs[k])[1].n = img.hash
          /\ KVsOf(fs[k]) =
                (IF k = a
                 THEN <<KVs("a", "t"), KVn("f", W(32)), KVs("o", "z"),
                        KVn("i", id), KVn("v", W(img.height)),
                        KVn("s", W(img.width))>>
                 ELSE <<>>)
                \o <<KVn("m", W(IF k < b THEN 1 ELSE 0))>>
    /\ SliceOf(fs[a])[1] = 0
    /\ \A k \in a..(b - 1) :
          SliceOf(fs[k + 1])[1] = SliceOf(fs[k])[1] + SliceOf(fs[k])[2]
    /\ SliceOf(fs[b])[1] + SliceOf(fs[b])[2] = PayloadLen(img)

\* the frame is exactly the placement of id at pid
PlacementOf(f, id, pid) ==
    /\ FrameWithSemi(f)
    /\ DataOf(f) = <<>>
    /\ KVsOf(f) = <<KVs("a", "p"), KVn("i", id), KVn("p", pid)>>

\* the call wrote a whole transfer of its image and then one placement
TransferThenPlacement(e) ==
    LET fs == FramesOf(e)
        n == Len(fs)
        id == kitty_image_id(e.img)
    IN /\ n >= 2
       /\ WholeTransfer(fs, 1, n - 1, e.img, id)
       /\ PlacementOf(fs[n], id, kitty_placement_id(e.pos))

\* the call wrote one placement and nothing else
PlacementOnly(e) ==
    LET fs == FramesOf(e)
    IN /\ Len(fs) = 1
       /\ PlacementOf(fs[1], kitty_image_id(e.img), kitty_placement_id(e.pos))

IsErrorAck(e) ==
    e.op = "handle" /\ e.event.kind = "KittyImage" /\ e.event.error # None

-----------------------------------------------------------------------------
(* C9 *)

\* C9 as stated: every frame written by draw or erase is
\* ESC _ G, key=value list, ';', optional payload, ESC \ with keys among
\* a,f,o,i,p,v,s,m,d
C9_AllFramesHaveSemi ==
    \A i \in Calls("draw") \cup Calls("erase") :
        LET fs == FramesOf(log[i])
        IN \A k \in 1..Len(fs) : FrameWithSemi(fs[k])

\* C9, amended: every frame written by draw (transfer, continuation and
\* placement) is ESC _ G, key=value list, ';', optional payload, ESC \; the
\* delete frame written by erase is ESC _ G, key=value list, ESC \ with no
\* ';' and no payload; only keys among a,f,o,i,p,v,s,m,d are used
C9_FrameForm ==
    /\ \A i \in Calls("draw") :
          LET fs == FramesOf(log[i])
          IN Len(fs) >= 1 /\ \A k \in 1..Len(fs) : FrameWithSemi(fs[k])
    /\ \A i \in Calls("erase") :
          LET fs == FramesOf(log[i])
          IN Len(fs) = 1 /\ FrameWithoutSemi(fs[1])

\* a draw that transferred in several chunks and an erase have both written
C9_Witness ==
    /\ \E i \in Calls("draw") : Len(FramesOf(log[i])) >= 3
    /\ \E i \in Calls("erase") : log[i].pos # None
    /\ \E i \in Calls("erase") : log[i].pos = None

-----------------------------------------------------------------------------
(* C5 *)

\* C5: when draw transfers an image, the payload is split in order into
\* frames of at most 4096 payload bytes, every chunk length divisible by 4,
\* only the first frame carries a=t,f=32,o=z,i,v,s, every frame but the last
\* has m=1 and the last m=0, the chunks concatenate to the payload, and
\* exactly one placement frame follows the last chunk
C5_ChunkedUpload ==
    \A i \in Calls("draw") :
        LET e == log[i]
            fs == FramesOf(e)
            n == Len(fs)
        IN (\E k \in 1..n : IsTransferHead(fs[k]) \/ DataOf(fs[k]) # <<>>) =>
              /\ TransferThenPlacement(e)
              /\ \A k \in 1..(n - 1) :
                    /\ SliceOf(fs[k])[2] <= 4096
                    /\ SliceOf(fs[k])[2] % 4 = 0
                    /\ ~IsPlacement(fs[k])
                    /\ k > 1 => KeysOf(fs[k]) \cap {"a", "f", "o", "i", "v", "s"} = {}

\* a draw has transferred a payload of three chunks, the last one short
C5_Witness ==
    \E i \in Calls("draw") :
        LET fs == FramesOf(log[i])
        IN /\ Len(fs) = 4
           /\ IsTransferHead(fs[1])
           /\ SliceOf(fs[1])[2] = 4096
           /\ SliceOf(fs[3])[2] < 4096

-----------------------------------------------------------------------------
(* C1 *)

NoErrorAck == \A i \in 1..Len(log) : ~IsErrorAck(log[i])

\* the frames of fs that start a transfer of the payload of img
TransferHeadsIn(fs, img) ==
    {k \in 1..Len(fs) : /\ IsTransferHead(fs[k])
                        /\ DataOf(fs[k]) # <<>>
                        /\ DataOf(fs[k])[1].n = img.hash}

\* the frames <<call, frame>> that start a transfer of the payload of img
TransferHeadsOf(img) ==
    UNION {{<<i, k>> : k \in TransferHeadsIn(FramesOf(log[i]), img)}
           : i \in Calls("draw")}

PlacementsIn(e) ==
    {k \in 1..Len(FramesOf(e)) : IsPlacement(FramesOf(e)[k])}

\* C1 as stated: with no error acknowledgment, the payload of each image
\* drawn is transferred exactly once, by the first draw of that image, and
\* every draw emits exactly one placement
C1_TransferOncePerImage ==
    NoErrorAck =>
        /\ \A i \in Calls("draw") :
              LET img == log[i].img
                  first == Min({j \in Calls("draw") : log[j].img = img})
              IN /\ Cardinality(TransferHeadsOf(img)) = 1
                 /\ \A t \in TransferHeadsOf(img) : t[1] = first
                 /\ TransferThenPlacement(log[first])
        /\ \A i \in Calls("draw") : Cardinality(PlacementsIn(log[i])) = 1

-----------------------------------------------------------------------------
(* C2 *)

\* call h is an error acknowledgment for the id of the image of draw j, that
\* image was transferred by a draw before h, and j is the next draw after h
RetransmitCase(h, j) ==
    /\ h \in Calls("handle") /\ j \in Calls("draw") /\ h < j
    /\ IsErrorAck(log[h])
    /\ log[h].event.id = kitty_image_id(log[j].img)
    /\ \A d \in Calls("draw") : ~(h < d /\ d < j)
    /\ \E i \in Calls("draw") :
          /\ i < h
          /\ log[i].img = log[j].img
          /\ TransferHeadsOf(log[j].img) \cap {<<i, 1>>} # {}

-----------------------------------------------------------------------------
(* C3 *)

\* the number of tokens of out before frame k of fs
RECURSIVE TokensBefore(_, _)
TokensBefore(fs, k) ==
    IF k <= 1 THEN 0 ELSE TokensBefore(fs, k - 1) + Len(fs[k - 1])

\* the first frame from a on with m=0, where a transfer that starts at a ends
RECURSIVE LastChunk(_, _)
LastChunk(fs, a) ==
    IF a > Len(fs) \/ HasN(fs[a], "m", WZero) THEN a ELSE LastChunk(fs, a + 1)

\* the images whose payload a transfer under id may carry
ImagesOfId(id) == {img \in Images : kitty_image_id(img) = id}

\* fs[a..b] is a whole transfer under image id id
WholeTransferOfId(fs, a, b, id) ==
    \E img \in ImagesOfId(id) : WholeTransfer(fs, a, b, img, id)

\* the error acknowledgments for id received before token position at
ErrorAcksBefore(id, at) ==
    {h \in Calls("handle") :
        IsErrorAck(log[h]) /\ log[h].event.id = id /\ log[h].at <= at}

\* C3: every placement frame (a=p,i=id) in the sink is preceded by a whole
\* transfer of that id (all chunks, the last with m=0) that was written
\* after the most recent error acknowledgment for that id
C3_TransferBeforePlacement ==
    LET fs == SplitFrames(out)
    IN \A k \in 1..Len(fs) :
          IsPlacement(fs[k]) =>
             \E id \in {fs[k][i].n : i \in {j \in 1..Len(fs[k]) :
                                             IsKV(fs[k][j]) /\ fs[k][j].k = "i"}} :
                \E a \in {a \in 1..(k - 1) : IsTransferHead(fs[a])} :
                   /\ LastChunk(fs, a) < k
                   /\ WholeTransferOfId(fs, a, LastChunk(fs, a), id)
                   /\ \A h \in ErrorAcksBefore(id, TokensBefore(fs, k)) :
                         log[h].at <= TokensBefore(fs, a)

\* a placement was written after an error acknowledgment for its id that
\* followed an earlier transfer of that id
C3_Witness ==
    LET fs == SplitFrames(out)
    IN \E k \in 1..Len(fs), a \in 1..Len(fs) :
          /\ IsPlacement(fs[k])
          /\ IsTransferHead(fs[a])
          /\ \E h \in Calls("handle") :
                /\ IsErrorAck(log[h])
                /\ HasN(fs[k], "i", log[h].event.id)
                /\ HasN(fs[a], "i", log[h].event.id)
                /\ TokensBefore(fs, a) < log[h].at
                /\ log[h].at <= TokensBefore(fs, k)

-----------------------------------------------------------------------------
(* C4 *)

\* the step is a call of handle, recorded as the last entry of log'
HandleStep ==
    /\ Len(log') = Len(log) + 1
    /\ log'[Len(log')].op = "handle"

\* C4: handle of KittyImage{id, error} with an error removes exactly id from
\* imgs, all other entries unchanged, and returns false; of KittyImage with
\* no error it returns true and leaves imgs unchanged; of every other event
\* it returns false and leaves imgs unchanged
C4_Handle ==
    [][HandleStep =>
          LET h == log'[Len(log')]
          IN IF IsErrorAck(h)
             THEN /\ h.ret = FALSE
                  /\ DOMAIN imgs' = DOMAIN imgs \ {h.event.id}
                  /\ \A k \in DOMAIN imgs' : imgs'[k] = imgs[k]
             ELSE IF h.event.kind = "KittyImage"
             THEN h.ret = TRUE /\ imgs' = imgs
             ELSE h.ret = FALSE /\ imgs' = imgs]_vars

\* handle has dropped the entry of one image and kept that of another
C4_Witness ==
    /\ Len(log) = 3
    /\ IsErrorAck(log[3])
    /\ log[1].op = "draw" /\ log[2].op = "draw"
    /\ log[3].event.id = kitty_image_id(log[1].img)
    /\ DOMAIN imgs = {kitty_image_id(log[2].img)}
    /\ log[3].ret = FALSE

-----------------------------------------------------------------------------
(* C6 *)

\* the values of key i in what a call wrote
ImageIdsWritten(e) ==
    {Written(e)[i].n : i \in {j \in 1..Len(Written(e)) :
                                IsKV(Written(e)[j]) /\ Written(e)[j].k = "i"}}

\* the low 32 bits of a: a modulo 2^32
WLow32(a) == [i \in 1..NLimbs |-> IF i >= NLimbs - 1 THEN a[i] ELSE 0]

\* a * 2^32
WShl32(a) == WShlLimb(WShlLimb(a))

\* r is the remainder of a u64 a divided by 2^32 - 1:
\* r < 2^32 - 1 and a = q * (2^32 - 1) + r, that is a + q = q * 2^32 + r,
\* for a quotient q, which is a div 2^32 or up to two more
IsRemainderMaxId(a, r) ==
    /\ WLess(r, U64(0, 0, 65535, 65535))
    /\ \E d \in 0..2 :
          LET q == WAdd(WShr32(a), W(d))
          IN WAdd(a, q) = WAdd(WShl32(q), r)

\* C6 as stated: the image id in the frames of draw and erase is the
\* image's fingerprint modulo 2^32
C6_IdIsHashMod2p32 ==
    \A i \in Calls("draw") \cup Calls("erase") :
        ImageIdsWritten(log[i]) = {WLow32(log[i].img.hash)}

\* C6, amended: the image id in the transfer, placement and delete frames is
\* the image's fingerprint modulo 4294967295 (2^32 - 1, KITTY_MAX_ID)
C6_IdIsHashModMaxId ==
    \A i \in Calls("draw") \cup Calls("erase") :
        /\ ImageIdsWritten(log[i]) # {}
        /\ \A id \in ImageIdsWritten(log[i]) :
              IsRemainderMaxId(log[i].img.hash, id)

\* transfer, placement and erase frames were written for images whose
\* fingerprint is 2^32 - 1 or more
C6_Witness ==
    /\ \E i \in Calls("draw") :
          /\ log[i].img.hash = ImgB.hash
          /\ Len(FramesOf(log[i])) >= 2
    /\ \E i \in Calls("draw") :
          /\ log[i].img.hash = ImgC.hash
          /\ Len(FramesOf(log[i])) >= 2
    /\ \E i \in Calls("erase") : WLeq(KITTY_MAX_ID, log[i].img.hash)

-----------------------------------------------------------------------------
(* C8 *)

EraseStep ==
    /\ Len(log') = Len(log) + 1
    /\ log'[Len(log')].op = "erase"

\* the frame is exactly the delete of id, with the placement of pos if any
DeleteOf(f, id, pos) ==
    /\ FrameWithoutSemi(f)
    /\ KVsOf(f) = <<KVs("a", "d"), KVs("d", "i"), KVn("i", id)>>
                  \o (IF pos = None THEN <<>>
                      ELSE <<KVn("p", kitty_placement_id(pos[1]))>>)

\* draw(X), erase(X, pos), draw(X) in a row, the first having transferred
EraseCase(i) ==
    /\ i + 2 <= Len(log)
    /\ log[i].op = "draw" /\ log[i + 1].op = "erase" /\ log[i + 2].op = "draw"
    /\ log[i + 1].img = log[i].img /\ log[i + 2].img = log[i].img

\* C8: erase, with or without a position, leaves imgs unchanged, so that
\* after draw(X), erase(X, pos) a further draw(X) writes only a placement;
\* with a position erase writes a delete for (image id, placement id),
\* without one a delete for the image id alone
C8_Erase ==
    /\ [][EraseStep => imgs' = imgs]_vars
    /\ [](\A i \in 1..Len(log) : EraseCase(i) => PlacementOnly(log[i + 2]))
    /\ [](\A i \in Calls("erase") :
             /\ Len(FramesOf(log[i])) = 1
             /\ DeleteOf(FramesOf(log[i])[1], kitty_image_id(log[i].img),
                         log[i].pos))

\* draw(X), erase(X, some position), draw(X) have run, X of several chunks
C8_Witness ==
    /\ EraseCase(1)
    /\ log[2].pos # None
    /\ Len(FramesOf(log[1])) >= 3

-----------------------------------------------------------------------------
(* C7 *)

\* C7: the placement id of (row, col) is (row mod 2^16) + (col mod 2^16) *
\* 2^16, that is the number whose 16 bit digits are col mod 2^16 and
\* row mod 2^16, and neither it nor the image id exceeds 4294967295
C7_PlacementId ==
    idOut # <<>> =>
        /\ \A i \in 1..NLimbs :
              idOut.placement_id[i] =
                 (IF i = NLimbs THEN idIn.pos.row % 65536
                  ELSE IF i = NLimbs - 1 THEN idIn.pos.col % 65536
                  ELSE 0)
        /\ WLeq(idOut.placement_id, U64(0, 0, 65535, 65535))
        /\ WLeq(idOut.image_id, U64(0, 0, 65535, 65535))

\* the ids of a position with both coordinates beyond 2^16 were computed
C7_Witness ==
    /\ idOut # <<>>
    /\ idIn.pos.row = 65537 /\ idIn.pos.col = 131071
    /\ idOut.placement_id = U64(0, 0, 65535, 1)

-----------------------------------------------------------------------------
(* C10 *)

RECURSIVE SumLen(_)
SumLen(c) == IF c = <<>> THEN 0 ELSE Head(c).value.len + SumLen(Tail(c))

\* C10: in every state of a SixelImageHandler or ItermImageHandler the size
\* accumulator is the sum of the byte lengths of the entries in the cache
C10_SizeIsSum == size = SumLen(cache)

\* an insertion has evicted an entry and two entries are cached
C10_Witness ==
    /\ Len(cache) = 2
    /\ \E i \in 1..Len(clog) :
          /\ clog[i].op = "draw"
          /\ ~clog[i].hit /\ clog[i].ok
          /\ Len(clog[i].before) = 2
          /\ clog[i].before[1].key \notin Keys(cache)

-----------------------------------------------------------------------------
(* Reading the calls of the Sixel/iTerm handler.                            *)

\* the draw calls that put an entry into the cache: a miss whose encoding
\* and write both succeeded
Inserted(e) ==
    /\ e.op = "draw"
    /\ ~e.hit /\ e.ok
    /\ "data" \in EncodeOutcomes(hkind, e.img)

InsertsIn(l) == {i \in 1..Len(l) : Inserted(l[i])}

Max(S) == CHOOSE x \in S : \A y \in S : y <= x

\* the byte strings a draw call handed to the sink
CacheWritten(o, e) == [k \in 1..(e.to - e.from) |-> o[e.from + k].data]

\* the entries of a cache, without their order
Contents(c) == {<<c[i].key, c[i].value>> : i \in 1..Len(c)}

\* the call that has just been made in this step, if one was made
CallMade == Len(clog') = Len(clog) + 1
ThisCall == clog'[Len(clog')]

-----------------------------------------------------------------------------
(* C11 *)

\* C11: in every state of a SixelImageHandler or ItermImageHandler the size
\* accumulator is at most IMAGE_CACHE_SIZE plus the length of the entry
\* inserted last (at most IMAGE_CACHE_SIZE when nothing was inserted)
C11_LruBound ==
    LET ins == InsertsIn(clog)
        last == IF ins = {} THEN 0 ELSE clog[Max(ins)].img.enc
    IN size <= IMAGE_CACHE_SIZE + last

-----------------------------------------------------------------------------
(* C12 *)

\* the successful draws of images with this hash among the calls l
OkDrawsOf(l, hash) ==
    {i \in 1..Len(l) : l[i].op = "draw" /\ l[i].ok /\ l[i].img.hash = hash}

\* the draw call of this step writes one byte string, the one that the call
\* l[i] wrote, it is served from the cache, and the entries and the size
\* stay as they are
ServedAsWrittenBy(i) ==
    /\ ThisCall.hit
    /\ Len(CacheWritten(cout', ThisCall)) = 1
    /\ CacheWritten(cout', ThisCall) = CacheWritten(cout, clog[i])
    /\ Contents(cache') = Contents(cache)
    /\ size' = size

\* C12 as stated: once a draw of an image has succeeded, every later draw of
\* an image with the same hash is served from the cache with the bytes of
\* the first successful draw and leaves entries and size unchanged
C12_EveryLaterDraw ==
    [][(CallMade /\ ThisCall.op = "draw"
        /\ OkDrawsOf(clog, ThisCall.img.hash) # {})
       => ServedAsWrittenBy(Min(OkDrawsOf(clog, ThisCall.img.hash)))]_vars

\* C12: a draw of an image whose hash is a key of the cache (inserted by an
\* earlier draw and not evicted since) is served from the cache with the
\* bytes the inserting draw wrote and leaves entries and size unchanged
C12_DrawWhileCached ==
    [][(CallMade /\ ThisCall.op = "draw"
        /\ ThisCall.img.hash \in Keys(cache))
       => /\ InsertsIn(clog) \cap OkDrawsOf(clog, ThisCall.img.hash) # {}
          /\ ServedAsWrittenBy(Max(InsertsIn(clog)
                                   \cap OkDrawsOf(clog, ThisCall.img.hash)))
      ]_vars

\* an image was inserted, another image was drawn, and the first image has
\* been drawn again from the cache
C12_Witness ==
    /\ Len(clog) >= 3
    /\ Inserted(clog[1]) /\ Inserted(clog[2])
    /\ clog[3].op = "draw" /\ clog[3].hit /\ clog[3].ok
    /\ clog[3].img = clog[1].img
    /\ clog[3].to = clog[3].from + 1

-----------------------------------------------------------------------------
(* C13 *)

\* the calls among l that used the key: a draw that found it in the cache
\* or a draw that inserted it
UsesOf(l, hash) ==
    {i \in 1..Len(l) :
        /\ l[i].op = "draw" /\ l[i].img.hash = hash
        /\ (l[i].hit \/ Inserted(l[i]))}

\* the keys that were in the cache or put into it, and are gone after the step
Evicted ==
    (Keys(cache) \cup (IF Inserted(ThisCall) THEN {ThisCall.img.hash} ELSE {}))
    \ Keys(cache')

\* the key used least recently among the keys of the cache after the put
LeastRecentlyUsed ==
    LET ks == Keys(cache) \cup {ThisCall.img.hash}
    IN CHOOSE k \in ks :
          \A k2 \in ks : Max(UsesOf(clog', k)) <= Max(UsesOf(clog', k2))

\* C13: a draw that inserts an entry and brings the size accumulator above
\* IMAGE_CACHE_SIZE removes exactly the least recently used entry, insertion
\* and cache hit counting as uses; no other call removes an entry
C13_EvictsLru ==
    [][CallMade =>
         IF Inserted(ThisCall) /\ size + ThisCall.img.enc > IMAGE_CACHE_SIZE
         THEN Evicted = {LeastRecentlyUsed}
         ELSE Evicted = {}]_vars

\* two images were inserted, the older one was drawn from the cache, and a
\* third insertion has evicted the other one
C13_Witness ==
    /\ Len(clog) = 4
    /\ Inserted(clog[1]) /\ Inserted(clog[2])
    /\ clog[3].op = "draw" /\ clog[3].hit /\ clog[3].img = clog[1].img
    /\ Inserted(clog[4])
    /\ clog[2].img.hash \notin Keys(cache)
    /\ clog[1].img.hash \in Keys(cache)

-----------------------------------------------------------------------------
(* Reading what a Sixel draw has written: the lines of the bands.           *)

\* the positions of the tokens of a kind
TokensAt(written, kind) == {i \in 1..Len(written) : written[i].t = kind}

\* ceil(height / 6)
BandCount(height) == (height + 5) \div 6

\* the lines written: for every "#c" of the band data its color, the band
\* it is in (from 0) and the tokens up to the "$" that ends it
LinesOf(written) ==
    LET crs == TokensAt(written, "CR")
        nls == TokensAt(written, "NL")
    IN {[color |-> written[i].n,
         band |-> Cardinality({k \in nls : k < i}),
         tokens |-> SubSeq(written, i + 1,
                           Min({k \in crs \cup {Len(written)} : k > i}) - 1)] :
            i \in TokensAt(written, "COLOR")}

\* the tokens of a line from position k on with every "!n c" replaced by n
\* times c; -1 stands for a token that is neither
RECURSIVE Expand(_, _)
Expand(tokens, k) ==
    IF k > Len(tokens) THEN <<>>
    ELSE IF tokens[k].t = "BYTE" THEN <<tokens[k].n>> \o Expand(tokens, k + 1)
    ELSE IF tokens[k].t = "RLE" /\ k < Len(tokens) /\ tokens[k + 1].t = "BYTE"
    THEN Repeat(tokens[k + 1].n, tokens[k].n) \o Expand(tokens, k + 2)
    ELSE <<-1>>

\* the code a line gives to a column (from 0): "?" past its end
CodeAt(codes, col) == IF col < Len(codes) THEN codes[col + 1] ELSE 63

\* the drawn image and what was written for it
SixelDrawn == sxOut # <<>> /\ sxOut.qimg # None

-----------------------------------------------------------------------------
(* C29 *)

\* C29: draw and erase of a DummyImageHandler return Ok and handle returns
\* Ok(false), for every image, position and event, and nothing is ever
\* written to the sink
C29_DummyNoop ==
    hkind = "dummy" =>
        /\ cout = <<>>
        /\ \A i \in 1..Len(clog) :
               /\ clog[i].ok
               /\ clog[i].op = "handle" => clog[i].ret = FALSE

\* draw, erase without a position and handle of a KittyImage event have
\* been called on a DummyImageHandler
C29_Witness ==
    /\ hkind = "dummy"
    /\ Len(clog) = 3
    /\ clog[1].op = "draw"
    /\ clog[2].op = "erase" /\ clog[2].pos = None
    /\ clog[3].op = "handle" /\ clog[3].event.kind = "KittyImage"
    /\ cout = <<>>

-----------------------------------------------------------------------------
(* C30 *)

\* C30: erase of a SixelImageHandler or ItermImageHandler, with or without
\* a position, returns Ok and writes nothing, handle returns false for
\* every event, and neither changes the entries of the cache, their order
\* or the size accumulator
C30_EraseHandleNoop ==
    [][(CallMade /\ ThisCall.op \in {"erase", "handle"}) =>
          /\ cout' = cout
          /\ cache' = cache
          /\ size' = size
          /\ ThisCall.op = "erase" => ThisCall.ok
          /\ ThisCall.op = "handle" => ThisCall.ret = FALSE]_vars

\* after a draw that cached an image, erase with a position, erase without
\* one and handle of a KittyImage event have been called, and the cache
\* and the sink are as the draw left them
C30_Witness ==
    /\ hkind \in {"sixel", "iterm"}
    /\ Len(clog) = 4
    /\ Inserted(clog[1])
    /\ clog[2].op = "erase" /\ clog[2].pos # None
    /\ clog[3].op = "erase" /\ clog[3].pos = None
    /\ clog[4].op = "handle" /\ clog[4].event.kind = "KittyImage"
    /\ Len(cache) = 1 /\ cache[1].key = clog[1].img.hash
    /\ size = clog[1].img.enc
    /\ Len(cout) = 1

-----------------------------------------------------------------------------
(* C14 *)

\* the kinds of token that may come before a token of a kind
Before(kind) ==
    CASE kind = "DCS" -> {}
      [] kind = "RASTER" -> {"DCS"}
      [] kind = "PAL" -> {"RASTER", "PAL"}
      [] kind = "COLOR" -> {"PAL", "CR", "NL"}
      [] kind = "RLE" -> {"COLOR", "BYTE"}
      [] kind = "BYTE" -> {"COLOR", "BYTE", "RLE"}
      [] kind = "CR" -> {"BYTE"}
      [] kind = "NL" -> {"CR"}
      [] kind = "ST" -> {"NL"}

\* C14: what SixelImageHandler.draw writes for an image that is not empty
\* starts with ESC P q and ends with ESC \, holds ceil(height / 6) bands each
\* ended by "-", has every run of data after a "#index", and has every data
\* byte in 63..126
C14_WellFormed ==
    (sxOut # <<>> /\ ~surface_is_empty(sxIn.img)) =>
        LET written == sxOut.written
            n == Len(written)
        IN /\ n >= 2
           /\ written[1] = SxDCS
           /\ written[n] = SxST
           /\ \A i \in 1..(n - 1) : written[i].t # "ST"
           /\ \A i \in 2..n : written[i - 1].t \in Before(written[i].t)
           /\ \A i \in 1..n : written[i].t = "RLE" =>
                  i < n /\ written[i + 1].t = "BYTE"
           /\ Cardinality(TokensAt(written, "NL")) = BandCount(sxIn.img.height)
           /\ \A i \in TokensAt(written, "BYTE") :
                  written[i].n >= 63 /\ written[i].n <= 126

\* an image of 7 rows has been written as two bands
C14_Witness ==
    /\ sxOut # <<>>
    /\ sxIn.img.height = 7
    /\ Cardinality(TokensAt(sxOut.written, "NL")) = 2
    /\ \E i \in TokensAt(sxOut.written, "RLE") : sxOut.written[i + 1].n > 63

-----------------------------------------------------------------------------
(* C15 *)

\* mask + 63 of a color at a column of the band at row: bit k is set where
\* the image has the row and the pixel there has the color
MaskCode(qimg, row, col, color) ==
    LET bit(k) == IF surface_get(qimg, row + k, col) = Some(color)
                  THEN 2 ^ k ELSE 0
    IN bit(0) + bit(1) + bit(2) + bit(3) + bit(4) + bit(5) + 63

\* C15: for every band, column and color written for the band, the last
\* band of fewer than 6 rows included, bit k of the mask written is set iff
\* the image has the row 6b+k and the quantized pixel there has the color,
\* and the byte written is mask + 63
C15_MaskOfRows ==
    SixelDrawn =>
        LET qimg == sxOut.qimg[1]
        IN \A line \in LinesOf(sxOut.written) :
               LET codes == Expand(line.tokens, 1)
               IN \A col \in 0..(qimg.width - 1) :
                      CodeAt(codes, col)
                          = MaskCode(qimg, 6 * line.band, col, line.color)

-----------------------------------------------------------------------------
(* C16 *)

\* the codes of a color in the band at row for the columns up to the last
\* one that holds it, "?" where a column does not hold it
CodesOf(qimg, row, color) ==
    LET line == sixel_line(qimg, row, color)
        last == IF line = <<>> THEN -1 ELSE line[Len(line)][1]
    IN [x \in 1..(last + 1) |->
           IF \E e \in 1..Len(line) : line[e][1] = x - 1
           THEN line[CHOOSE e \in 1..Len(line) : line[e][1] = x - 1][2]
           ELSE 63] \o <<>>

\* the codes from position k on with every run of one code written as
\* "!n c" when it is longer than 3 and as n times c otherwise
RECURSIVE RunLength(_, _)
RunLength(codes, k) ==
    LET run == Min({j \in k..Len(codes) :
                       j = Len(codes) \/ codes[j + 1] # codes[k]}) - k + 1
    IN IF k > Len(codes) THEN <<>>
       ELSE (IF run > 3 THEN <<SxRLE(run), SxBYTE(codes[k])>>
             ELSE [i \in 1..run |-> SxBYTE(codes[k])] \o <<>>)
            \o RunLength(codes, k + run)

-----------------------------------------------------------------------------
(* C17 *)

\* C17: what is written holds one entry "#i;2;r;g;b" for every index i of
\* the palette, in the order of the indices, with the channels of the color
\* scaled to integers in 0..100; the palette has at most 256 colors; every
\* color index of the band data is the index of an entry
C17_Palette ==
    SixelDrawn =>
        LET written == sxOut.written
            colors == sxOut.colors
            entries == Len(colors)
        IN /\ entries <= 256
           /\ Cardinality(TokensAt(written, "PAL")) = entries
           /\ \A i \in 1..entries :
                  /\ written[2 + i].t = "PAL"
                  /\ written[2 + i].n = i - 1
                  /\ \A ch \in 1..3 :
                         /\ written[2 + i].v[ch] \in 0..100
                         /\ 2 * 255 * written[2 + i].v[ch]
                                <= 200 * colors[i][ch] + 255
                         /\ 200 * colors[i][ch] + 255
                                < 2 * 255 * (written[2 + i].v[ch] + 1)
           /\ \A i \in TokensAt(written, "COLOR") : written[i].n \in 0..(entries - 1)

\* an image of more than 256 colors has been written with a palette of
\* more than 200 entries, one of them with a channel of 100
C17_Witness ==
    /\ SixelDrawn
    /\ Cardinality({sxIn.img.data[p] : p \in 1..Len(sxIn.img.data)}) > 256
    /\ Len(sxOut.colors) > 200
    /\ \E i \in TokensAt(sxOut.written, "PAL") : sxOut.written[i].v[1] = 100

-----------------------------------------------------------------------------
(* C21 *)

\* bit k (0 the lowest) of a channel
BitOf(x, k) == (x \div 2^k) % 2

\* C21: the path of an RGB color has exactly 8 indices in 0..7, the k-th
\* made of the k-th most significant bits of red, green and blue, red the
\* high bit, and the color rebuilt from the 8 indices is the color
C21_PathRoundTrip ==
    fnOut # <<>> =>
        /\ Len(fnOut.path) = 8
        /\ \A k \in 1..8 :
               /\ fnOut.path[k] \in 0..7
               /\ fnOut.path[k] = 4 * BitOf(fnIn.color[1], 8 - k)
                                  + 2 * BitOf(fnIn.color[2], 8 - k)
                                  + BitOf(fnIn.color[3], 8 - k)
        /\ fnOut.color = fnIn.color

\* the path of #5a719d has been taken and is 1, 6, 2, 7, 5, 1, 4, 3
C21_Witness ==
    /\ fnOut # <<>>
    /\ fnIn.color = RGBA(90, 113, 157, 255)
    /\ fnOut.path = <<1, 6, 2, 7, 5, 1, 4, 3>>
    /\ fnOut.color = RGBA(90, 113, 157, 255)

-----------------------------------------------------------------------------
(* C23 *)

\* find has been called on a palette
PaletteFound == fnOut # <<>> /\ fnOut.palette # None

\* C23 as stated: for every palette and every index i, find(colors[i]) is
\* <<i, colors[i]>>
C23_FindOwnColor ==
    PaletteFound =>
        \A i \in 1..Len(fnIn.colors) : fnOut.own[i] = <<i - 1, fnIn.colors[i]>>

\* no color is twice in the vector
Distinct(colors) ==
    \A i, j \in 1..Len(colors) : colors[i] = colors[j] => i = j

\* C23: for every palette of opaque colors no two of which are the same, and
\* every index i, find(colors[i]) is <<i, colors[i]>>; for every palette,
\* find(colors[i]) is <<j, colors[i]>> for an index j of that same color
C23_FindOwnColorDistinct ==
    PaletteFound =>
        /\ \A i \in 1..Len(fnIn.colors) :
               /\ fnOut.own[i][2] = fnIn.colors[i]
               /\ fnOut.own[i][1] \in 0..(Len(fnIn.colors) - 1)
               /\ fnIn.colors[fnOut.own[i][1] + 1] = fnIn.colors[i]
        /\ Distinct(fnIn.colors) =>
               \A i \in 1..Len(fnIn.colors) :
                   fnOut.own[i] = <<i - 1, fnIn.colors[i]>>

\* find has been called for every color of a palette of nine colors that
\* share channels
C23_Witness ==
    /\ PaletteFound
    /\ fnIn.colors = SharedColors
    /\ Distinct(fnIn.colors)
    /\ fnOut.own[7] = <<6, RGBA(128, 64, 128, 255)>>

-----------------------------------------------------------------------------
(* C24 *)

\* the least squared distance of the probe to a color of the palette
LeastDistance(colors, probe) ==
    Min({naive_dist(probe, colors[i]) : i \in 1..Len(colors)})

\* C24: for every palette and probe, the color find returns is as far from
\* the probe as the one find_naive returns, which is the least distance to
\* a color of the palette; the index returned is an index of the color
\* returned, and its alpha is 255
C24_FindIsNearest ==
    PaletteFound =>
        LET found == fnOut.found[1]
            naive == fnOut.naive[1]
        IN /\ naive_dist(fnIn.probe, found[2]) = naive_dist(fnIn.probe, naive[2])
           /\ naive_dist(fnIn.probe, found[2])
                  = LeastDistance(fnIn.colors, fnIn.probe)
           /\ found[1] \in 0..(Len(fnIn.colors) - 1)
           /\ fnIn.colors[found[1] + 1] = found[2]
           /\ found[2][4] = 255

\* find and find_naive have returned different colors of a palette made by
\* pruning an OcTree, as near to the probe the one as the other and none of
\* them the probe itself
C24_Witness ==
    /\ PaletteFound
    /\ fnIn.colors = PrunedColors
    /\ Len(fnIn.colors) = 8
    /\ fnOut.found[1][2] # fnOut.naive[1][2]
    /\ naive_dist(fnIn.probe, fnOut.found[1][2]) > 0
    /\ naive_dist(fnIn.probe, fnOut.found[1][2])
           = naive_dist(fnIn.probe, fnOut.naive[1][2])

-----------------------------------------------------------------------------
(* C25 *)

\* quantize has been called on an image that is not empty
QuantizeCalled == fnOut # <<>> /\ ~surface_is_empty(fnIn.img)

\* what quantize returned is an indexed surface of the size of the image,
\* every entry an index of the palette, and every color handed to
\* palette.find had its channels in 0..255
InGamut(quantized) ==
    /\ quantized.qimg.height = fnIn.img.height
    /\ quantized.qimg.width = fnIn.img.width
    /\ Len(quantized.qimg.data) = fnIn.img.height * fnIn.img.width
    /\ \A p \in 1..Len(quantized.qimg.data) :
           quantized.qimg.data[p] \in 0..(Len(quantized.palette.colors) - 1)
    /\ Len(quantized.asked) = fnIn.img.height * fnIn.img.width
    /\ \A p \in 1..Len(quantized.asked) :
           \A ch \in 1..4 : quantized.asked[p][ch] \in 0..255

\* C25: for every image that is not empty, every palette_size, dither flag
\* and background, quantize returns an indexed surface of the height and
\* width of the image whose entries are indices of the palette, and every
\* error-corrected color handed to palette.find has channels in 0..255
C25_InGamut ==
    QuantizeCalled =>
        /\ ~fnOut.quantized.panics
        /\ fnOut.quantized.value # None
        /\ InGamut(fnOut.quantized.value[1])

\* the same whenever quantize returns
InGamutWhenReturned ==
    (QuantizeCalled /\ ~fnOut.quantized.panics) =>
        /\ fnOut.quantized.value # None
        /\ InGamut(fnOut.quantized.value[1])

-----------------------------------------------------------------------------
(* C26 *)

\* from_image and quantize have been called
PaletteCalled == fnOut # <<>>

\* C26: from_image and quantize return None if and only if the image is
\* empty, and for every image that is not empty and every palette_size they
\* return a palette of at least one color
C26_NoneIffEmpty ==
    PaletteCalled =>
        /\ ~fnOut.palette.panics
        /\ fnOut.palette.value = None <=> surface_is_empty(fnIn.img)
        /\ fnOut.quantized.value = None <=> surface_is_empty(fnIn.img)
        /\ ~surface_is_empty(fnIn.img) =>
               /\ Len(fnOut.palette.value[1].colors) >= 1
               /\ fnOut.quantized.value[1].palette = fnOut.palette.value[1]

\* the same whenever from_image returns
NoneIffEmptyWhenReturned ==
    (PaletteCalled /\ ~fnOut.palette.panics) =>
        /\ ~fnOut.quantized.panics
        /\ fnOut.palette.value = None <=> surface_is_empty(fnIn.img)
        /\ fnOut.quantized.value = None <=> surface_is_empty(fnIn.img)
        /\ ~surface_is_empty(fnIn.img) =>
               /\ Len(fnOut.palette.value[1].colors) >= 1
               /\ fnOut.quantized.value[1].palette = fnOut.palette.value[1]

-----------------------------------------------------------------------------
(* C27 *)

\* the colors of the pixels of an image
PixelColors(img) == {img.data[p] : p \in 1..Len(img.data)}

\* max(palette_size, 8)
AtLeast8(palette_size) == IF palette_size > 8 THEN palette_size ELSE 8

\* every pixel of the image is inserted: palette_size * 100 is not 0 and
\* sample is below 2
AllInserted ==
    /\ ~surface_is_empty(fnIn.img)
    /\ fnIn.palette_size > 0
    /\ (fnIn.img.height * fnIn.img.width) \div (fnIn.palette_size * 100) < 2

\* C27: for an opaque image whose pixels are all inserted and that has at
\* most max(palette_size, 8) colors, from_image returns a palette whose
\* colors are the colors of the pixels, each of them once
C27_ExactPalette ==
    (PaletteCalled /\ AllInserted
     /\ Cardinality(PixelColors(fnIn.img)) <= AtLeast8(fnIn.palette_size)) =>
        /\ ~fnOut.palette.panics
        /\ fnOut.palette.value # None
        /\ Len(fnOut.palette.value[1].colors)
               = Cardinality(PixelColors(fnIn.img))
        /\ {fnOut.palette.value[1].colors[i] :
               i \in 1..Len(fnOut.palette.value[1].colors)}
               = PixelColors(fnIn.img)

\* from_image has returned the eight colors of an image of eight colors for
\* palette_size 1
C27_Witness ==
    /\ PaletteCalled /\ AllInserted
    /\ fnIn.palette_size = 1
    /\ Cardinality(PixelColors(fnIn.img)) = 8
    /\ Len(fnOut.palette.value[1].colors) = 8

-----------------------------------------------------------------------------
(* C28 *)

\* C28: for every image that is not empty and every palette_size, 0 and the
\* values below 8 too, from_image returns, and the palette it returns has
\* at most max(palette_size, 8) colors
C28_ClampedSize ==
    (PaletteCalled /\ ~surface_is_empty(fnIn.img)) =>
        /\ ~fnOut.palette.panics
        /\ fnOut.palette.value # None
        /\ Len(fnOut.palette.value[1].colors) <= AtLeast8(fnIn.palette_size)

\* the same whenever from_image returns
ClampedSizeWhenReturned ==
    (PaletteCalled /\ ~surface_is_empty(fnIn.img) /\ ~fnOut.palette.panics) =>
        /\ fnOut.palette.value # None
        /\ Len(fnOut.palette.value[1].colors) <= AtLeast8(fnIn.palette_size)

\* from_image has panicked
FromImagePanicked == PaletteCalled /\ fnOut.palette.panics

-----------------------------------------------------------------------------
(* Reading an OcTree.                                                       *)

\* the trees of an OcTree: itself and the trees below it
RECURSIVE TreesOf(_)
TreesOf(tree) ==
    {tree} \cup UNION {TreesOf(child(tree, i).tree) :
                          i \in {j \in 0..7 : child(tree, j).tag = "Tree"}}

\* the lengths of the paths from the root of tree to its leaves, the root
\* being at the given depth
RECURSIVE LeafDepths(_, _)
LeafDepths(tree, depth) ==
    {depth + 1 : i \in {j \in 0..7 : child(tree, j).tag = "Leaf"}}
    \cup UNION {LeafDepths(child(tree, i).tree, depth + 1) :
                   i \in {j \in 0..7 : child(tree, j).tag = "Tree"}}

\* the number of Leaf nodes in the tree
RECURSIVE LeafCount(_)
LeafCount(tree) ==
    LET n[k \in 0..8] ==
          IF k = 0 THEN 0
          ELSE n[k - 1] + (IF tree.children[k].tag = "Leaf" THEN 1
                           ELSE IF tree.children[k].tag = "Tree"
                           THEN LeafCount(tree.children[k].tree)
                           ELSE 0)
    IN n[8]

OcCalls(ops) == {i \in 1..Len(oclog) : oclog[i].op \in ops}

LastOcCall == oclog[Len(oclog)]

-----------------------------------------------------------------------------
(* C22 *)

\* no call but from_iter and insert has been made on the tree
OnlyInserts == \A i \in 1..Len(oclog) : oclog[i].op \in {"from_iter", "insert"}

\* the colors inserted by the calls made, in order
RECURSIVE InsertedBy(_)
InsertedBy(n) ==
    IF n = 0 THEN <<>>
    ELSE InsertedBy(n - 1)
         \o (IF oclog[n].op = "from_iter" THEN oclog[n].colors
             ELSE IF oclog[n].op = "insert" THEN <<oclog[n].rgba>>
             ELSE <<>>)

\* how many times a color is in a sequence of colors
Multiplicity(colors, c) == Cardinality({i \in 1..Len(colors) : colors[i] = c})

\* C22: after inserts alone into a fresh OcTree, color_count of the root is
\* the number of inserts, leaf_count the number of distinct colors,
\* min_color_count the least multiplicity of a color, and find of every
\* inserted color is a leaf of exactly that color
C22_InsertInfo ==
    (octree # <<>> /\ OnlyInserts) =>
        LET colors == InsertedBy(Len(oclog))
            distinct == {colors[i] : i \in 1..Len(colors)}
        IN /\ octree.info.color_count = Len(colors)
           /\ octree.info.leaf_count = Cardinality(distinct)
           /\ octree.info.min_color_count =
                  IF distinct = {} THEN None
                  ELSE Some(Min({Multiplicity(colors, c) : c \in distinct}))
           /\ \A c \in distinct :
                  /\ find(octree, c) # None
                  /\ find(octree, c)[1][2] = c

\* thirteen colors, then one of them again and a new one have been
\* inserted: twelve distinct colors, some more than once, the least count 1
C22_Witness ==
    /\ octree # <<>> /\ OnlyInserts
    /\ Len(oclog) = 3
    /\ Len(oclog[1].colors) = Len(ColorList)
    /\ oclog[2].rgba = RGBA(0, 0, 0, 255)
    /\ oclog[3].rgba = RGBA(0, 0, 4, 255)
    /\ octree.info.color_count = Len(ColorList) + 2
    /\ octree.info.leaf_count = 12
    /\ octree.info.min_color_count = Some(1)
    /\ find(octree, RGBA(0, 0, 1, 255)) = Some(<<0, RGBA(0, 0, 1, 255)>>)

-----------------------------------------------------------------------------
(* C18 *)

\* the info that the children of a tree add up to: leaf_count and
\* color_count are sums, min_color_count is the least one present
JoinOfChildren(tree) ==
    LET infos == [i \in 1..8 |-> node_info(tree.children[i])]
        sum[k \in 0..8] ==
          IF k = 0 THEN <<0, 0>>
          ELSE <<sum[k - 1][1] + infos[k].leaf_count,
                 sum[k - 1][2] + infos[k].color_count>>
        mins == {infos[i].min_color_count[1] :
                    i \in {j \in 1..8 : infos[j].min_color_count # None}}
    IN [leaf_count |-> sum[8][1], color_count |-> sum[8][2],
        min_color_count |-> IF mins = {} THEN None ELSE Some(Min(mins))]

\* C18: in every OcTree reached by insert, prune and prune_until, the info
\* of every tree node is the join of the infos of its eight children
C18_InfoIsJoin ==
    octree # <<>> => \A t \in TreesOf(octree) : t.info = JoinOfChildren(t)

-----------------------------------------------------------------------------
(* C19 *)

\* C19: prune_until(n) returns on every OcTree reached by insert, prune and
\* prune_until, and then the tree's leaf_count, and the number of leaves it
\* holds, are at most max(n, 8)
C19_PruneUntil ==
    (octree # <<>> /\ LastOcCall.op = "prune_until") =>
        LET n == LastOcCall.color_count
            bound == IF n >= 8 THEN n ELSE 8
        IN /\ LastOcCall.ends
           /\ octree.info.leaf_count <= bound
           /\ LeafCount(octree) <= bound

\* prune_until(9) has pruned a tree of more than nine leaves, after an
\* earlier prune, and prune_until(0) one of more than eight
C19_Witness ==
    /\ octree # <<>>
    /\ Len(oclog) = 4
    /\ Len(oclog[1].colors) = Len(ColorList)
    /\ oclog[2].op = "prune"
    /\ oclog[3].op = "prune_until" /\ oclog[3].color_count = 9
    /\ oclog[4].op = "prune_until" /\ oclog[4].color_count = 0
    /\ octree.info.leaf_count <= 8
    /\ LeafCount(octree) >= 1

-----------------------------------------------------------------------------
(* C20 *)

\* C20 as stated: every Leaf is at the end of a path of length 8
C20_LeafDepthIs8 ==
    octree # <<>> => LeafDepths(octree, 0) \subseteq {8}

\* C20: every Leaf is at the end of a path of length 1 to 8, and of length
\* exactly 8 as long as the tree has not been pruned
C20_LeafDepthAtMost8 ==
    octree # <<>> =>
        /\ LeafDepths(octree, 0) \subseteq 1..8
        /\ OcCalls({"prune", "prune_until"}) = {}
              => LeafDepths(octree, 0) \subseteq {8}
        /\ \A t \in TreesOf(octree) :
              \A i \in 0..7 : child(t, i).tag # "Unreachable"

\* a prune has made a leaf on a shorter path, and a color was inserted next
\* to it on a path of length 8
C20_Witness ==
    /\ octree # <<>>
    /\ OcCalls({"prune", "prune_until"}) # {}
    /\ LastOcCall.op = "insert"
    /\ 8 \in LeafDepths(octree, 0)
    /\ \E d \in 1..7 : d \in LeafDepths(octree, 0)

-----------------------------------------------------------------------------
(* C31 *)

\* C31: drawing an image without pixels through the Sixel encoder returns
\* an EncodingInvariant error
C31_EmptyIsError ==
    (sxOut # <<>> /\ surface_is_empty(sxIn.img)) =>
        sxOut.ret = "EncodingInvariant"

\* what draw does for an image without pixels: it returns Ok(()) and has
\* written nothing
C31_EmptyIsOk ==
    (sxOut # <<>> /\ surface_is_empty(sxIn.img)) =>
        /\ sxOut.ret = "Ok"
        /\ sxOut.written = <<>>

-----------------------------------------------------------------------------
(* C32 *)

\* the value of a hex digit
DigitValue(c) == CHOOSE v \in 0..15 : c \in {HexLower[v + 1], HexUpper[v + 1]}

IsHexDigits(s) ==
    \A i \in 1..Len(s) : \E v \in 0..15 : s[i] \in {HexLower[v + 1], HexUpper[v + 1]}

\* the number that one to four hex digits write
HexNumber(s) ==
    LET n == Len(s)
        place(i) == CASE n - i = 0 -> 1 [] n - i = 1 -> 16
                      [] n - i = 2 -> 256 [] n - i = 3 -> 4096
    IN IF n = 1 THEN DigitValue(s[1])
       ELSE IF n = 2 THEN DigitValue(s[1]) * place(1) + DigitValue(s[2])
       ELSE IF n = 3
       THEN DigitValue(s[1]) * place(1) + DigitValue(s[2]) * place(2)
            + DigitValue(s[3])
       ELSE DigitValue(s[1]) * place(1) + DigitValue(s[2]) * place(2)
            + DigitValue(s[3]) * place(3) + DigitValue(s[4])

\* a component of one to four hex digits scaled to 8 bits
ScaledTo8(s) ==
    CASE Len(s) = 4 -> HexNumber(s) \div 256
      [] Len(s) = 3 -> HexNumber(s) \div 16
      [] Len(s) = 2 -> HexNumber(s)
      [] Len(s) = 1 -> HexNumber(s) * 17

IsComponent(s) == Len(s) \in 1..4 /\ IsHexDigits(s)

\* s is "rgb:r/g/b" with the first "/" at i and the second at j
IsRgbAt(s, i, j) ==
    /\ 5 < i /\ i < j /\ j < Len(s)
    /\ SubSeq(s, 1, 4) = <<"r", "g", "b", ":">>
    /\ s[i] = "/" /\ s[j] = "/"
    /\ IsComponent(SubSeq(s, 5, i - 1))
    /\ IsComponent(SubSeq(s, i + 1, j - 1))
    /\ IsComponent(SubSeq(s, j + 1, Len(s)))

IsRgb(s) == \E i, j \in 1..Len(s) : IsRgbAt(s, i, j)

IsHash(s, digits) ==
    Len(s) = digits + 1 /\ s[1] = "#" /\ IsHexDigits(Tail(s))

\* the color that the claim gives a string, None for a parse error
StatedColor(s) ==
    IF IsHash(s, 6)
    THEN Some(RGBA(HexNumber(SubSeq(s, 2, 3)), HexNumber(SubSeq(s, 4, 5)),
                   HexNumber(SubSeq(s, 6, 7)), 255))
    ELSE IF IsHash(s, 8)
    THEN Some(RGBA(HexNumber(SubSeq(s, 2, 3)), HexNumber(SubSeq(s, 4, 5)),
                   HexNumber(SubSeq(s, 6, 7)), HexNumber(SubSeq(s, 8, 9))))
    ELSE IF IsRgb(s)
    THEN LET at == CHOOSE at \in (1..Len(s)) \X (1..Len(s)) :
                       IsRgbAt(s, at[1], at[2])
         IN Some(RGBA(ScaledTo8(SubSeq(s, 5, at[1] - 1)),
                      ScaledTo8(SubSeq(s, at[1] + 1, at[2] - 1)),
                      ScaledTo8(SubSeq(s, at[2] + 1, Len(s))), 255))
    ELSE None

ColorParsed == fnOut # <<>>

\* C32: "#RRGGBB" parses to its three bytes and alpha 255, "#RRGGBBAA" to
\* its four bytes, "rgb:r/g/b" with one to four hex digits per component to
\* the components scaled to 8 bits and alpha 255, every channel in 0..255;
\* any other string is a parse error
C32_Parse ==
    ColorParsed =>
        /\ fnOut.color = StatedColor(fnIn.string)
        /\ fnOut.ok = (StatedColor(fnIn.string) # None)
        /\ fnOut.ok => \A ch \in 1..4 : fnOut.color[1][ch] \in 0..255

\* the strings of the three forms parse to the colors stated, and what
\* parses has its channels in 0..255
C32_ParseOfForms ==
    ColorParsed =>
        /\ StatedColor(fnIn.string) # None
              => fnOut.ok /\ fnOut.color = StatedColor(fnIn.string)
        /\ fnOut.ok => \A ch \in 1..4 : fnOut.color[1][ch] \in 0..255

\* the strings outside the three forms that parse: between quotation marks,
\* with a "+" before the digits of a component, with more than three
\* components
C32_ParsedOutsideForms ==
    /\ ColorParsed /\ fnOut.ok
    /\ StatedColor(fnIn.string) = None
    /\ StatedColor(trim_matches(fnIn.string)) = None

-----------------------------------------------------------------------------
(* C33 *)

\* C33: for every Face, parsing the string that Display writes gives a Face
\* equal to it
C33_FaceRoundTrip ==
    (fnOut # <<>> /\ "face" \in DOMAIN fnIn) =>
        /\ fnOut.parsed.ok
        /\ fnOut.parsed.face = Some(fnIn.face)

\* a face whose fg is not opaque, whose bg has channels below 16 and that
\* has the six attributes was written and parsed
C33_Witness ==
    /\ fnOut # <<>> /\ "face" \in DOMAIN fnIn
    /\ fnIn.face.fg = Some(RGBA(171, 205, 239, 128))
    /\ fnIn.face.bg = Some(RGBA(5, 16, 255, 255))
    /\ fnIn.face.attrs = 63
    /\ Len(fnOut.string) = 67
    /\ fnOut.parsed.ok

\* the test string of test_parse_face parses to the face of the test
C33_TestString ==
    (fnOut # <<>> /\ "string" \in DOMAIN fnIn /\ Len(fnIn.string) = 38) =>
        fnOut.parsed = face_ok(Face(Some(RGBA(152, 151, 26, 255)),
                                    Some(RGBA(189, 174, 147, 255)), 5))

-----------------------------------------------------------------------------
(* C34 *)

\* the leaves of the tree in the order of the children, the leaves below a
\* child before the leaves of the next child
RECURSIVE LeavesInOrder(_)
LeavesInOrder(tree) ==
    LET n[k \in 0..8] ==
          IF k = 0 THEN <<>>
          ELSE n[k - 1] \o (IF tree.children[k].tag = "Leaf"
                            THEN <<tree.children[k].leaf>>
                            ELSE IF tree.children[k].tag = "Tree"
                            THEN LeavesInOrder(tree.children[k].tree)
                            ELSE <<>>)
    IN n[8]

\* the leaf that the bits of a color lead to from the k-th bit on, None when
\* they lead to an Empty node
RECURSIVE ReachedLeaf(_, _, _)
ReachedLeaf(tree, color, k) ==
    IF k > 8 THEN None
    ELSE LET node == tree.children[4 * BitOf(color[1], 8 - k)
                                   + 2 * BitOf(color[2], 8 - k)
                                   + BitOf(color[3], 8 - k) + 1]
         IN IF node.tag = "Leaf" THEN Some(node.leaf)
            ELSE IF node.tag = "Tree" THEN ReachedLeaf(node.tree, color, k + 1)
            ELSE None

\* c is the average of the colors that the leaf counts, alpha 255
IsAverage(c, leaf) ==
    /\ c[4] = 255
    /\ c[1] * leaf.color_count <= leaf.red_acc
    /\ leaf.red_acc < (c[1] + 1) * leaf.color_count
    /\ c[2] * leaf.color_count <= leaf.green_acc
    /\ leaf.green_acc < (c[2] + 1) * leaf.color_count
    /\ c[3] * leaf.color_count <= leaf.blue_acc
    /\ leaf.blue_acc < (c[3] + 1) * leaf.color_count

\* the colors that are looked up after build_palette
FindProbes ==
    {ColorList[i] : i \in 1..Len(ColorList)} \cup OcInserts
    \cup {RGBA(1, 1, 1, 255), RGBA(64, 64, 64, 255), RGBA(200, 10, 100, 255)}

PaletteBuilt == octree # <<>> /\ LastOcCall.op = "build_palette"

\* C34: right after build_palette the vector returned has one entry per Leaf
\* of the tree, the i-th Leaf in the order of the children has index i - 1
\* and palette[index] is its average color with alpha 255, and find of a
\* color that reaches a leaf returns the index and the color of that leaf
C34_DenseIndices ==
    PaletteBuilt =>
        /\ Len(LastOcCall.palette) = LeafCount(octree)
        /\ Len(LeavesInOrder(octree)) = LeafCount(octree)
        /\ \A i \in 1..Len(LeavesInOrder(octree)) :
               /\ LeavesInOrder(octree)[i].index = i - 1
               /\ IsAverage(LastOcCall.palette[i], LeavesInOrder(octree)[i])
        /\ \A c \in FindProbes :
               ReachedLeaf(octree, c, 1) # None =>
                   find(octree, c) =
                       Some(<<ReachedLeaf(octree, c, 1)[1].index,
                              LastOcCall.palette[ReachedLeaf(octree, c, 1)[1].index + 1]>>)

\* build_palette was called on a pruned tree with leaves on paths of
\* different lengths, one of them the average of several colors, and a
\* color of the list reaches the leaf of index 3 or more
C34_Witness ==
    /\ PaletteBuilt
    /\ OcCalls({"prune", "prune_until"}) # {}
    /\ Len(LastOcCall.palette) >= 5
    /\ Cardinality(LeafDepths(octree, 0)) >= 2
    /\ \E i \in 1..Len(LeavesInOrder(octree)) :
           LeavesInOrder(octree)[i].color_count >= 3
    /\ \E c \in FindProbes :
           /\ find(octree, c) # None
           /\ find(octree, c)[1][1] >= 3

-----------------------------------------------------------------------------
(* C35 *)

\* what a field (color_count or the sum of a channel) adds up to over the
\* Leaf nodes of a tree and the removed accumulators of the tree and of the
\* trees below it
RECURSIVE MassOf(_, _)
MassOf(tree, field) ==
    LET n[k \in 0..8] ==
          IF k = 0 THEN tree.removed[field]
          ELSE n[k - 1] + (IF tree.children[k].tag = "Leaf"
                           THEN tree.children[k].leaf[field]
                           ELSE IF tree.children[k].tag = "Tree"
                           THEN MassOf(tree.children[k].tree, field)
                           ELSE 0)
    IN n[8]

\* the sum of a channel of the first n colors
RECURSIVE ChannelSum(_, _, _)
ChannelSum(colors, ch, n) ==
    IF n = 0 THEN 0 ELSE ChannelSum(colors, ch, n - 1) + colors[n][ch]

\* the trees below the root
TreesBelow(tree) == TreesOf(tree) \ {tree}

\* no Tree below the root of tree has eight Empty children
RECURSIVE NoEmptyTreeBelow(_)
NoEmptyTreeBelow(tree) ==
    \A i \in 0..7 :
        child(tree, i).tag = "Tree" =>
            /\ \E j \in 0..7 : child(child(tree, i).tree, j).tag # "Empty"
            /\ NoEmptyTreeBelow(child(tree, i).tree)

\* the Leaf nodes and the removed accumulators of tree add up to colors
MassIs(tree, colors) ==
    /\ MassOf(tree, "color_count") = Len(colors)
    /\ MassOf(tree, "red_acc") = ChannelSum(colors, 1, Len(colors))
    /\ MassOf(tree, "green_acc") = ChannelSum(colors, 2, Len(colors))
    /\ MassOf(tree, "blue_acc") = ChannelSum(colors, 3, Len(colors))

\* C35: after any sequence of insert and prune calls the color_count and
\* the channel sums of the Leaf nodes and of the removed accumulators of the
\* trees add up to the totals of the colors inserted, and no node is a Tree
\* with eight Empty children: it has become a Leaf
C35_MassConserved ==
    octree # <<>> =>
        /\ MassIs(octree, InsertedBy(Len(oclog)))
        /\ NoEmptyTreeBelow(octree)

\* after prunes the root and a tree below it hold removed colors, and a
\* Leaf on a path shorter than 8 holds the colors of the leaves it replaced
C35_Witness ==
    /\ octree # <<>>
    /\ LastOcCall.op \in {"prune", "prune_until"}
    /\ octree.removed.color_count >= 1
    /\ \E t \in TreesBelow(octree) : t.removed.color_count >= 1
    /\ \E d \in 1..7 : d \in LeafDepths(octree, 0)
    /\ \E i \in 1..Len(LeavesInOrder(octree)) :
           LeavesInOrder(octree)[i].color_count >= 2
    /\ LeafCount(octree) >= 2

-----------------------------------------------------------------------------
(* C36 *)

AllCounted(leaves) ==
    \A i \in 1..Len(leaves) : leaves[i].color_count >= 1

\* C36: every Leaf of an OcTree reached by insert, prune and prune_until
\* has color_count >= 1, so that to_rgba divides by a positive number
C36_LeafCounts ==
    octree # <<>> => AllCounted(LeavesInOrder(octree))

\* build_palette was called after a prune that replaced a tree by the Leaf
\* of its removed colors, and find reaches that Leaf
C36_Witness ==
    /\ PaletteBuilt
    /\ OcCalls({"prune", "prune_until"}) # {}
    /\ \E d \in 1..7 : d \in LeafDepths(octree, 0)
    /\ \E c \in FindProbes :
           /\ ReachedLeaf(octree, c, 1) # None
           /\ ReachedLeaf(octree, c, 1)[1].color_count >= 2
           /\ find(octree, c) # None

-----------------------------------------------------------------------------
(* C37 *)

IsPrefix(p, s) == Len(p) <= Len(s) /\ SubSeq(s, 1, Len(p)) = p

\* what the call wrote starts with the whole transfer of its image
WroteTransfer(e) ==
    LET fs == FramesOf(e)
        n == ChunkCount(PayloadLen(e.img))
    IN /\ Len(fs) >= n
       /\ WholeTransfer(fs, 1, n, e.img, kitty_image_id(e.img))

\* the image ids that the first n calls have recorded, going by the sink:
\* an id is recorded by the draw that wrote every chunk of its transfer
RECURSIVE RecordedBy(_)
RecordedBy(n) ==
    IF n = 0 THEN {}
    ELSE IF log[n].op = "draw" /\ WroteTransfer(log[n])
    THEN RecordedBy(n - 1) \cup {kitty_image_id(log[n].img)}
    ELSE RecordedBy(n - 1)

\* what the i-th call writes when no write fails: the placement alone for
\* a recorded image, the transfer from its first chunk on and then the
\* placement otherwise
Unfailed(i) ==
    (IF kitty_image_id(log[i].img) \in RecordedBy(i - 1) THEN <<>>
     ELSE Transfer(log[i].img, kitty_image_id(log[i].img)))
    \o Placement(kitty_image_id(log[i].img), kitty_placement_id(log[i].pos))

\* C37: a draw on a failing sink returns the IO error at the first failed
\* write and writes nothing after it; the image is recorded in imgs if and
\* only if every chunk of its transfer was written: after a failure during
\* the transfer the next draw transfers from the first chunk on, after a
\* failure of the placement write the next draw writes the placement alone
C37_SinkFailure ==
    /\ \A i \in Calls("draw") :
           /\ log[i].ret = (IF log[i].failed = 0 THEN "Ok" ELSE "IOError")
           /\ IsPrefix(Written(log[i]), Unfailed(i))
           /\ log[i].ret = "Ok" <=> Written(log[i]) = Unfailed(i)
    /\ DOMAIN imgs = RecordedBy(Len(log))
    /\ \A id \in DOMAIN imgs :
           \E i \in Calls("draw") :
               kitty_image_id(log[i].img) = id /\ imgs[id] = ImageSize(log[i].img)

\* a draw of the image of three chunks failed on the data of the second
\* chunk and left imgs empty, and the next draw transferred the three chunks
\* and placed the image
C37_Witness ==
    /\ Len(log) = 2
    /\ log[1].img = ImgC /\ log[1].ret = "IOError" /\ log[1].failed = 5
    /\ Len(FramesOf(log[1])) = 2
    /\ log[2].img = ImgC /\ log[2].ret = "Ok"
    /\ TransferThenPlacement(log[2])
    /\ Len(FramesOf(log[2])) = 4
    /\ DOMAIN imgs = {kitty_image_id(ImgC)}

\* the placement write of a draw failed after the whole transfer, the image
\* was recorded, and the next draw wrote the placement alone
C37_PlacementFailed ==
    /\ Len(log) = 2
    /\ log[1].img = ImgC /\ log[1].ret = "IOError" /\ log[1].failed = 10
    /\ WroteTransfer(log[1])
    /\ log[2].img = ImgC /\ log[2].ret = "Ok"
    /\ PlacementOnly(log[2])
    /\ DOMAIN imgs = {kitty_image_id(ImgC)}

-----------------------------------------------------------------------------
(* C38 *)

\* draw i is the first draw of an image of its fingerprint
FirstOfFingerprint(i) ==
    \A j \in Calls("draw") : j < i => log[j].img.hash # log[i].img.hash

\* C38 as stated: images of different fingerprints are transferred
\* independently: the first draw of an image writes its transfer whatever
\* other images were transferred before it, and a later draw of the image
\* writes the transfer again only after an error acknowledgment for the id
\* of that image, received since an earlier draw of it
C38_Independent ==
    /\ \A i \in Calls("draw") :
           FirstOfFingerprint(i) => TransferThenPlacement(log[i])
    /\ \A j \in Calls("draw") :
           (~FirstOfFingerprint(j) /\ TransferThenPlacement(log[j])) =>
               \E h \in Calls("handle") :
                   /\ h < j
                   /\ IsErrorAck(log[h])
                   /\ log[h].event.id = kitty_image_id(log[j].img)

-----------------------------------------------------------------------------
(* C39 *)

\* C39 as stated: fresh SixelImageHandlers with the same background that
\* draw the same image write the same bytes: the order of the color runs
\* inside each band is a function of the image alone
C39_Deterministic ==
    \A i \in 1..Len(sxOut), j \in 1..Len(sxOut) :
        sxOut[i].written = sxOut[j].written

-----------------------------------------------------------------------------
(* C40 *)

\* the events poll has returned to its caller, in order
ReturnedSome(r) == r.ret = "Ok" /\ r.event # None
PolledEvents ==
    LET rs == SelectSeq(fnOut.polled, ReturnedSome)
    IN [i \in 1..Len(rs) |-> rs[i].event[1]]

\* the events offered to the image handler, and those it did not handle
NotHandled(e) == ~e.ret
OfferedEvents == [i \in 1..Len(log) |-> log[i].event]
LeftEvents ==
    LET es == SelectSeq(log, NotHandled)
    IN [i \in 1..Len(es) |-> es[i].event]

\* an event that came from decoder.decode: not the Resize and Wake events
\* poll makes, nor the event taken from the decoder after the loop
FromDecode(event) == event \in DecodedEvents
IsAckOk(event) == event.kind = "KittyImage" /\ event.error = None
IsAckError(event) == event.kind = "KittyImage" /\ event.error # None

InSeq(x, s) == \E i \in 1..Len(s) : s[i] = x

\* every event returned by decode is offered to the handler once, in
\* decode order; it is queued if and only if handle returned false; the
\* caller receives the queued events in the order they were queued
Routed ==
    /\ OfferedEvents = fnOut.decoded
    /\ SelectSeq(fnOut.queued, FromDecode) = LeftEvents
    /\ PolledEvents \o fnIn.events_queue = fnOut.queued
    /\ \A i \in 1..Len(log) : IsAckError(log[i].event) => ~log[i].ret

\* C40 as stated: ... so a successful Kitty acknowledgment is never
\* returned by poll and an error acknowledgment always is
C40_Routing ==
    /\ Routed
    /\ \A i \in 1..Len(PolledEvents) : ~IsAckOk(PolledEvents[i])
    /\ \A i \in 1..Len(fnOut.decoded) :
           IsAckError(fnOut.decoded[i]) => InSeq(fnOut.decoded[i], fnOut.queued)

\* C40 as amended: every event returned by decode is offered to the image
\* handler exactly once, in decode order, and queued if and only if handle
\* returned false; queued events are returned in FIFO order; an error
\* acknowledgment is always queued; with a KittyImageHandler a successful
\* acknowledgment is never queued or returned, with any other handler
\* every decoded event is queued, successful acknowledgments too
C40_RoutingByHandler ==
    /\ Routed
    /\ \A i \in 1..Len(fnOut.decoded) :
           IsAckError(fnOut.decoded[i]) => InSeq(fnOut.decoded[i], fnOut.queued)
    /\ hkind = "kitty" =>
           /\ \A i \in 1..Len(fnOut.queued) : ~IsAckOk(fnOut.queued[i])
           /\ \A i \in 1..Len(PolledEvents) : ~IsAckOk(PolledEvents[i])
    /\ hkind # "kitty" =>
           SelectSeq(fnOut.queued, FromDecode) = fnOut.decoded

\* with a KittyImageHandler one read gave a successful and then an error
\* acknowledgment: both were offered, the first was handled and the second
\* returned by that poll; the next poll found nothing
C40_Witness ==
    /\ hkind = "kitty"
    /\ fnOut.decoded = <<KittyImageEvent(W(5), None),
                         KittyImageEvent(W(5), Some("bad data"))>>
    /\ Len(log) = 2 /\ log[1].ret /\ ~log[2].ret
    /\ fnOut.polled = <<[ret |-> "Ok", event |-> Some(KittyImageEvent(W(5), Some("bad data")))],
                        [ret |-> "Ok", event |-> None]>>

\* with a DummyImageHandler poll returned a successful acknowledgment
C40_DummyAck ==
    /\ hkind = "dummy"
    /\ Len(PolledEvents) >= 1 /\ IsAckOk(PolledEvents[1])

====
